---- MODULE Spec2Model ----
(***************************************************************************)
(* A model of the HackRU-Fall2025 marketplace prototype: the flat-file     *)
(* user store (src/server/models.ts), the auth service                     *)
(* (src/server/services.ts), the profile store                             *)
(* (src/server/profile-store.ts), the dashboard service and the AI         *)
(* insight generator (src/server/ai.ts).                                   *)
(*                                                                         *)
(* Every handler is an async function: it runs until its next file read or *)
(* file write and resumes when that completes.  A request is therefore a   *)
(* record with a position (pc) and its local variables, and there is one   *)
(* action per resumption.  Strings are sequences of one-character tokens,  *)
(* so that trim and toLowerCase are computed and not assumed.              *)
(***************************************************************************)
EXTENDS Integers, Sequences, FiniteSets, TLC

VARIABLES
    users,      \* content of data/users.json: a sequence of UserRecord
    buyers,     \* content of data/buyer-profiles.json: a sequence of BuyerProfile
    sellers,    \* content of data/seller-profiles.json: a sequence of SellerProfile
    offersFile, \* content of data/offers.json: a sequence of StoreOffer
    aiClient,   \* whether an API key is configured, so that the Gemini client exists
    today,      \* the calendar day new Date() falls on, as a day number
    nextUuid,   \* the next value crypto.randomUUID() hands out
    reqs,       \* the requests in flight: slot -> position and locals
    acked       \* history: the user records signup has answered 201 for

vars == <<users, buyers, sellers, offersFile, aiClient, today, nextUuid, reqs, acked>>

-----------------------------------------------------------------------------
(* Bounds of the model *)

MaxUuid == 2        \* crypto.randomUUID() is called at most this often
MaxDay == 2         \* the clock advances at most to this day
MaxInventory == 1   \* an inventory holds at most this many items
MaxShopping == 2    \* a shopping list holds at most this many entries

Slots == {1, 2}

-----------------------------------------------------------------------------
(* Strings *)

\* a missing field; a token sequence no string of the model equals
Undefined == <<"undefined">>

\* String.prototype.toLowerCase, per character
LowerTok(c) ==
    CASE c = "A" -> "a"
      [] c = "B" -> "b"
      [] c = "P" -> "p"
      [] c = "K" -> "k"
      [] c = "GREEN" -> "green"
      [] c = "Kale" -> "kale"
      [] c = "Produce" -> "produce"
      [] c = "Pantry" -> "pantry"
      [] OTHER -> c

ToLowerCase(s) == [i \in 1..Len(s) |-> LowerTok(s[i])]

\* String.prototype.toUpperCase, per token
UpperTok(c) ==
    CASE c = "a" -> "A"
      [] c = "b" -> "B"
      [] c = "p" -> "P"
      [] c = "k" -> "K"
      [] OTHER -> c

ToUpperCase(s) == [i \in 1..Len(s) |-> UpperTok(s[i])]

\* String.prototype.includes for a word
Includes(s, w) == \E i \in 1..Len(s) : s[i] = w

MapSeq(seq, F(_)) == [i \in 1..Len(seq) |-> F(seq[i])]

IsSpace(c) == c \in {" ", "\t", "\n"}

\* String.prototype.trim
RECURSIVE TrimStart(_)
TrimStart(s) ==
    IF s # << >> /\ IsSpace(Head(s)) THEN TrimStart(Tail(s)) ELSE s

RECURSIVE TrimEnd(_)
TrimEnd(s) ==
    IF s # << >> /\ IsSpace(s[Len(s)]) THEN TrimEnd(SubSeq(s, 1, Len(s) - 1)) ELSE s

Trim(s) == TrimEnd(TrimStart(s))

\* payload.x?.trim(): undefined stays undefined
OptTrim(v) == IF v = Undefined THEN Undefined ELSE Trim(v)

\* !v for a string or undefined
Falsy(v) == v = Undefined \/ v = << >>

\* email.split('@')[0]
RECURSIVE BeforeAt(_)
BeforeAt(s) ==
    IF s = << >> \/ Head(s) = "@" THEN << >> ELSE <<Head(s)>> \o BeforeAt(Tail(s))

\* Array.prototype.findIndex, 1-based; 0 when no element matches
FindIndex(seq, P(_)) ==
    IF \E i \in 1..Len(seq) : P(seq[i])
    THEN CHOOSE i \in 1..Len(seq) : P(seq[i]) /\ \A j \in 1..(i - 1) : ~P(seq[j])
    ELSE 0

\* Array.prototype.filter
Filter(seq, P(_)) == SelectSeq(seq, P)

-----------------------------------------------------------------------------
(* The user store: models.ts *)

NoUser == [t |-> "undef"]

EmailMatches(user, email) == ToLowerCase(user.email) = ToLowerCase(email)

\* findUserByEmail, on the list readUsers returned
findUserByEmail(list, email) ==
    LET Match(u) == EmailMatches(u, email)
        i == FindIndex(list, Match)
    IN  IF i = 0 THEN NoUser ELSE list[i]

UserId(role, uuid) == <<role, uuid>>

\* displayName?.trim() || email.split('@')[0] || 'New user'
DefaultDisplayName(displayName, email) ==
    IF ~Falsy(OptTrim(displayName)) THEN Trim(displayName)
    ELSE IF BeforeAt(email) # << >> THEN BeforeAt(email)
    ELSE <<"New user">>

\* the record createUser builds
NewUser(email, password, role, displayName, uuid) ==
    [id |-> UserId(role, uuid), email |-> email, password |-> password,
     displayName |-> DefaultDisplayName(displayName, email), role |-> role]

-----------------------------------------------------------------------------
(* The profile store: profile-store.ts *)

NoProfile == [t |-> "undef"]

\* getBuyerProfile / getSellerProfile, on the list read from the file
getProfile(list, userId) ==
    LET Match(p) == p.userId = userId
        i == FindIndex(list, Match)
    IN  IF i = 0 THEN NoProfile ELSE list[i]

\* an upsert that would always add the profile at the end
upsertProfileAppend(list, profile) == Append(list, profile)

\* upsertBuyerProfile / upsertSellerProfile: the list that is written
upsertProfile(list, profile) ==
    LET Match(p) == p.userId = profile.userId
        i == FindIndex(list, Match)
    IN  IF i > 0 THEN [list EXCEPT ![i] = profile] ELSE Append(list, profile)

\* the scaffold ensureBuyerProfileForUser creates
BuyerScaffold(userId, displayName, day) ==
    [userId |-> userId, displayName |-> displayName, zip |-> "07030",
     budgetPerWeek |-> 90, inventory |-> << >>, purchases |-> << >>,
     events |-> << >>, lastUpdated |-> day]

\* the scaffold ensureSellerProfileForUser creates
SellerScaffold(userId, displayName, day) ==
    [userId |-> userId, displayName |-> displayName,
     store |-> [name |-> displayName \o <<"'s Market">>, zip |-> "07030"],
     goals |-> [reduceSpoilage |-> 60, increaseSellThrough |-> 60, growBundles |-> 60],
     inventory |-> << >>, demandSignals |-> << >>, promotions |-> << >>,
     lastUpdated |-> day]

-----------------------------------------------------------------------------
(* Inventory: profile-store.ts.  Quantities are counted in tenths of a unit *)
(* (0.5 is 5), dates are day numbers, and an absent number or date is       *)
(* NoNumber.                                                                *)

NoNumber == -1

\* differenceInDays: both dates are reduced to their calendar day
differenceInDays(date, from) == date - from

Max(a, b) == IF a >= b THEN a ELSE b

\* the daysLeft appendBuyerInventoryItem computes on day `day`
DaysLeft(expirationDate, day) ==
    IF expirationDate # NoNumber THEN Max(0, differenceInDays(expirationDate, day))
    ELSE NoNumber

\* a derivation that would look at the quantity first
deriveStatusRestockFirst(daysLeft, quantity) ==
    IF quantity <= 5 THEN "restock"
    ELSE IF daysLeft # NoNumber /\ daysLeft <= 3 THEN "use-soon"
    ELSE IF daysLeft # NoNumber /\ daysLeft > 40 THEN "overflow"
    ELSE "healthy"

\* deriveStatus(daysLeft, quantity): 0.5 is 5 tenths
deriveStatus(daysLeft, quantity) ==
    IF daysLeft # NoNumber /\ daysLeft <= 3 THEN "use-soon"
    ELSE IF quantity <= 5 THEN "restock"
    ELSE IF daysLeft # NoNumber /\ daysLeft > 40 THEN "overflow"
    ELSE "healthy"

\* the item appendBuyerInventoryItem builds
NewItem(input, day, uuid) ==
    [id |-> <<"inv", uuid>>, name |-> input.name, quantity |-> input.quantity,
     unit |-> input.unit, category |-> input.category,
     status |-> deriveStatus(DaysLeft(input.expirationDate, day), input.quantity),
     addedOn |-> day, expirationDate |-> input.expirationDate,
     daysLeft |-> DaysLeft(input.expirationDate, day)]

\* the profile appendBuyerInventoryItem upserts
AppendedProfile(profile, input, day, uuid) ==
    [profile EXCEPT !.inventory = Append(profile.inventory, NewItem(input, day, uuid)),
                    !.lastUpdated = day]

\* a removal that would keep the old lastUpdated
RemovedProfileStale(profile, inventoryId, day) ==
    LET Keep(it) == it.id # inventoryId
    IN  [profile EXCEPT !.inventory = Filter(profile.inventory, Keep)]

\* the profile removeBuyerInventoryItem upserts
RemovedProfile(profile, inventoryId, day) ==
    LET Keep(it) == it.id # inventoryId
    IN  [profile EXCEPT !.inventory = Filter(profile.inventory, Keep),
                        !.lastUpdated = day]

\* an entry whose status would follow the spoilageRisk that is stored
NewEntryByStoredRisk(item) ==
    LET computedRisk == IF item.daysOnHand > 14 THEN 70
                        ELSE IF item.daysOnHand > 9 THEN 40 ELSE 20
        storedRisk == IF item.spoilageRisk # NoNumber THEN item.spoilageRisk
                      ELSE computedRisk
        status == IF storedRisk > 65 THEN "critical"
                  ELSE IF storedRisk > 40 THEN "risk" ELSE "healthy"
    IN  [sku |-> item.sku, name |-> item.name, stock |-> item.stock,
         daysOnHand |-> item.daysOnHand, margin |-> item.margin, status |-> status,
         spoilageRisk |-> storedRisk]

\* the entry addSellerInventoryEntry builds
NewEntry(item) ==
    LET computedRisk == IF item.daysOnHand > 14 THEN 70
                        ELSE IF item.daysOnHand > 9 THEN 40 ELSE 20
        status == IF computedRisk > 65 THEN "critical"
                  ELSE IF computedRisk > 40 THEN "risk" ELSE "healthy"
    IN  [sku |-> item.sku, name |-> item.name, stock |-> item.stock,
         daysOnHand |-> item.daysOnHand, margin |-> item.margin, status |-> status,
         spoilageRisk |-> IF item.spoilageRisk # NoNumber THEN item.spoilageRisk
                          ELSE computedRisk]

\* the profile addSellerInventoryEntry upserts
SellerAddedProfile(profile, item, day) ==
    [profile EXCEPT !.inventory = Append(profile.inventory, NewEntry(item)),
                    !.lastUpdated = day]

\* ai-add-to-list: the profile after the quick item is attached to an event;
\* body.item arrives trimmed, a missing or zero quantity counts as 1 and a
\* missing or blank unit as 'each'
QuickAddedProfile(profile, body, day) ==
    LET Open(e) == e.status = "needs-shopping" \/ e.status = "draft"
        i == FindIndex(profile.events, Open)
        quick == [id |-> <<"event-quick", day>>, name |-> <<"Quick Order">>, date |-> day,
                  status |-> "needs-shopping", shoppingList |-> << >>]
        events == IF i > 0 THEN profile.events ELSE Append(profile.events, quick)
        k == IF i > 0 THEN i ELSE Len(events)
        entry == [name |-> Trim(body.item),
                  quantity |-> IF body.quantity \in {NoNumber, 0} THEN 1 ELSE body.quantity,
                  unit |-> IF Falsy(OptTrim(body.unit)) THEN <<"each">> ELSE Trim(body.unit),
                  status |-> "add"]
    IN  [profile EXCEPT
            !.events = [events EXCEPT ![k].shoppingList = Append(events[k].shoppingList, entry)],
            !.lastUpdated = day]

-----------------------------------------------------------------------------
(* JSON values: what JSON.parse returns.  Every value has the same fields; t  *)
(* tells which one is meant.  An object is the list of its key-value pairs.  *)

JNull == [t |-> "null", n |-> 0, s |-> << >>, a |-> << >>, o |-> << >>]
JUndefined == [JNull EXCEPT !.t = "undefined"]
JNum(n) == [JNull EXCEPT !.t = "number", !.n = n]
JStr(s) == [JNull EXCEPT !.t = "string", !.s = s]
JArr(a) == [JNull EXCEPT !.t = "array", !.a = a]
JObj(o) == [JNull EXCEPT !.t = "object", !.o = o]
KV(k, v) == [k |-> k, v |-> v]

\* value.key, for a value that is not null or undefined
Get(v, key) ==
    IF v.t = "object" /\ \E i \in 1..Len(v.o) : v.o[i].k = key
    THEN v.o[CHOOSE i \in 1..Len(v.o) : v.o[i].k = key].v
    ELSE JUndefined

\* value.key throws a TypeError
GetThrows(v) == v.t \in {"null", "undefined"}

IsString(v) == v.t = "string"
IsArray(v) == v.t = "array"
\* typeof v === 'object' && v !== null
IsObject(v) == v.t \in {"object", "array"}
Truthy(v) ==
    CASE v.t \in {"null", "undefined"} -> FALSE
      [] v.t = "number" -> v.n # 0
      [] v.t = "string" -> v.s # << >>
      [] OTHER -> TRUE

\* typeof v === 'string' ? v.trim() : otherwise
TrimmedOr(v, otherwise) == IF IsString(v) THEN Trim(v.s) ELSE otherwise

\* String(v)
StringOf(v) ==
    CASE v.t = "string" -> v.s
      [] v.t = "number" -> <<ToString(v.n)>>
      [] v.t = "null" -> <<"null">>
      [] v.t = "undefined" -> <<"undefined">>
      [] v.t = "array" -> <<"[array]">>
      [] OTHER -> <<"[object Object]">>

-----------------------------------------------------------------------------
(* Insight parsing: ai.ts *)

Moods == {"green", "amber", "red"}

\* a variant that would keep whatever string the reply gives as mood
ensureMoodAsGiven(value, fallback) ==
    IF ~IsString(value) \/ value.s = << >> THEN fallback ELSE ToLowerCase(value.s)[1]

ensureMood(value, fallback) ==
    IF ~IsString(value) THEN fallback
    ELSE IF ToLowerCase(value.s) \in {<<m>> : m \in Moods} THEN ToLowerCase(value.s)[1]
    ELSE fallback

Insight(keyword, mood, detail) == [keyword |-> keyword, mood |-> mood, detail |-> detail]

formatInsight(keyword, mood, detail) == Insight(ToUpperCase(Trim(keyword)), mood, Trim(detail))

\* the null parseInsight returns
NoInsight == Insight(<< >>, "none", << >>)

parseInsight(input) ==
    IF ~Truthy(input) \/ ~IsObject(input) THEN NoInsight
    ELSE LET keyword == TrimmedOr(Get(input, "keyword"), << >>)
             detail == TrimmedOr(Get(input, "detail"), << >>)
         IN  IF keyword = << >> \/ detail = << >> THEN NoInsight
             ELSE Insight(ToUpperCase(keyword), ensureMood(Get(input, "mood"), "amber"), detail)

parseInsightArray(value) ==
    IF ~IsArray(value) THEN << >>
    ELSE LET Kept(x) == x # NoInsight IN Filter(MapSeq(value.a, parseInsight), Kept)

\* addOns is left out of a day whose reply lists none: the empty list stands for it
MealDay(day, meals, addOns) == [day |-> day, meals |-> meals, addOns |-> addOns]

parseMealPlan(value) ==
    IF ~IsArray(value) THEN << >>
    ELSE LET Entry(entry) ==
                 IF ~Truthy(entry) \/ ~IsObject(entry) THEN MealDay(<< >>, << >>, << >>)
                 ELSE MealDay(TrimmedOr(Get(entry, "day"), << >>),
                              parseInsightArray(Get(entry, "meals")),
                              parseInsightArray(Get(entry, "addOns")))
             Kept(x) == x.day # << >>
         IN  Filter(MapSeq(value.a, Entry), Kept)

DietDay(day, focus, tip) == [day |-> day, focus |-> focus, tip |-> tip]

parseDietSchedule(value) ==
    IF ~IsArray(value) THEN << >>
    ELSE LET Entry(entry) ==
                 IF ~Truthy(entry) \/ ~IsObject(entry) THEN DietDay(<< >>, NoInsight, NoInsight)
                 ELSE DietDay(TrimmedOr(Get(entry, "day"), << >>),
                              parseInsight(Get(entry, "focus")), parseInsight(Get(entry, "tip")))
             Kept(x) == x.day # << >> /\ x.focus # NoInsight /\ x.tip # NoInsight
         IN  Filter(MapSeq(value.a, Entry), Kept)

KPI_METRICS == {"wasteRisk", "pantryHealth", "budgetHealth", "eventReadiness"}

KPI_HEADLINES(metric) ==
    CASE metric = "wasteRisk" -> <<"WASTE RISK">>
      [] metric = "pantryHealth" -> <<"PANTRY LOAD">>
      [] metric = "budgetHealth" -> <<"BUDGET HEALTH">>
      [] metric = "eventReadiness" -> <<"EVENT READINESS">>

ensureKpiMetric(value) ==
    IF IsString(value) /\ value.s \in {<<m>> : m \in KPI_METRICS} THEN value.s[1]
    ELSE "wasteRisk"

Callout(metric, headline, mood, detail) ==
    [metric |-> metric, headline |-> headline, mood |-> mood, detail |-> detail]

parseKpiCallouts(value) ==
    IF ~IsArray(value) THEN << >>
    ELSE LET Entry(entry) ==
                 IF ~Truthy(entry) \/ ~IsObject(entry) THEN Callout("wasteRisk", << >>, "none", << >>)
                 ELSE LET metric == ensureKpiMetric(Get(entry, "metric"))
                          rawHeadline == TrimmedOr(Get(entry, "headline"), << >>)
                      IN  Callout(metric,
                                  IF rawHeadline # << >> THEN ToUpperCase(rawHeadline)
                                  ELSE KPI_HEADLINES(metric),
                                  ensureMood(Get(entry, "mood"), "amber"),
                                  TrimmedOr(Get(entry, "detail"), << >>))
             Kept(x) == x.detail # << >>
         IN  Filter(MapSeq(value.a, Entry), Kept)

Annotation(name, mood, statusLabel, categoryLabel, suggestion) ==
    [name |-> name, mood |-> mood, statusLabel |-> statusLabel,
     categoryLabel |-> categoryLabel, suggestion |-> suggestion]

parseInventoryAnnotations(value) ==
    IF ~IsArray(value) THEN << >>
    ELSE LET Entry(entry) ==
                 IF ~Truthy(entry) \/ ~IsObject(entry)
                 THEN Annotation(<< >>, "none", << >>, << >>, Undefined)
                 ELSE Annotation(TrimmedOr(Get(entry, "name"), << >>),
                                 ensureMood(Get(entry, "mood"), "amber"),
                                 TrimmedOr(Get(entry, "statusLabel"), << >>),
                                 TrimmedOr(Get(entry, "categoryLabel"), << >>),
                                 TrimmedOr(Get(entry, "suggestion"), Undefined))
             Kept(x) == x.name # << >> /\ x.statusLabel # << >> /\ x.categoryLabel # << >>
         IN  Filter(MapSeq(value.a, Entry), Kept)

Recommendation(item, reason, storeSuggestion, mood) ==
    [item |-> item, reason |-> reason, storeSuggestion |-> storeSuggestion, mood |-> mood]

parseNutritionRecommendations(value) ==
    IF ~IsArray(value) THEN << >>
    ELSE LET Entry(entry) ==
                 IF ~Truthy(entry) \/ ~IsObject(entry)
                 THEN Recommendation(<< >>, << >>, Undefined, "none")
                 ELSE Recommendation(TrimmedOr(Get(entry, "item"), << >>),
                                     TrimmedOr(Get(entry, "reason"), << >>),
                                     TrimmedOr(Get(entry, "storeSuggestion"), Undefined),
                                     ensureMood(Get(entry, "mood"), "green"))
             Kept(x) == x.item # << >> /\ x.reason # << >>
         IN  Filter(MapSeq(value.a, Entry), Kept)

\* a PantryNutritionSummary; hasGrid tells whether it carries a nutritionGrid
Pantry(macroBalance, missingNutrients, recommendedAdditions, overallMood, hasGrid, grid) ==
    [macroBalance |-> macroBalance, missingNutrients |-> missingNutrients,
     recommendedAdditions |-> recommendedAdditions, overallMood |-> overallMood,
     hasGrid |-> hasGrid, nutritionGrid |-> grid]

\* the null parsePantryNutrition returns
NoPantry == Pantry(<< >>, << >>, << >>, "none", FALSE, << >>)

parsePantryNutrition(value) ==
    IF ~Truthy(value) \/ ~IsObject(value) THEN NoPantry
    ELSE LET macroBalance == TrimmedOr(Get(value, "macroBalance"), << >>)
             Item(item) == TrimmedOr(item, << >>)
             Kept(x) == x # << >>
             missingNutrients ==
                 IF IsArray(Get(value, "missingNutrients"))
                 THEN Filter(MapSeq(Get(value, "missingNutrients").a, Item), Kept)
                 ELSE << >>
             recommendedAdditions ==
                 parseNutritionRecommendations(Get(value, "recommendedAdditions"))
         IN  IF macroBalance = << >> /\ missingNutrients = << >> /\ recommendedAdditions = << >>
             THEN NoPantry
             ELSE Pantry(IF macroBalance # << >> THEN macroBalance
                         ELSE <<"No macro balance insight available.">>,
                         missingNutrients, recommendedAdditions,
                         ensureMood(Get(value, "overallMood"), "amber"), FALSE, << >>)

-----------------------------------------------------------------------------
(* Heuristic insights: ai.ts.  A text built from a template is the template's *)
(* name followed by the values it interpolates; amounts are whole dollars and *)
(* rates are whole percents.                                                  *)

Min(a, b) == IF a <= b THEN a ELSE b

\* Array.prototype.slice(0, n)
Take(seq, n) == SubSeq(seq, 1, Min(n, Len(seq)))

RECURSIVE Flatten(_)
Flatten(ss) == IF ss = << >> THEN << >> ELSE Head(ss) \o Flatten(Tail(ss))

RECURSIVE SumTotals(_)
SumTotals(purchases) ==
    IF purchases = << >> THEN 0 ELSE Head(purchases).total + SumTotals(Tail(purchases))

\* items.map((item) => item.name).join(...)
JoinNames(items) == LET Name(item) == item.name IN Flatten(MapSeq(items, Name))

BUYER_STATUS_MOOD(status) ==
    CASE status = "healthy" -> "green"
      [] status = "use-soon" -> "amber"
      [] status = "restock" -> "red"
      [] status = "overflow" -> "amber"
      [] OTHER -> "amber"

SELLER_STATUS_MOOD(status) ==
    CASE status = "healthy" -> "green"
      [] status = "risk" -> "amber"
      [] status = "critical" -> "red"
      [] OTHER -> "amber"

statusLabelMap(status) ==
    CASE status = "healthy" -> <<"Healthy">>
      [] status = "use-soon" -> <<"Use Soon">>
      [] status = "restock" -> <<"Restock Soon">>
      [] status = "overflow" -> <<"Overflow">>
      [] OTHER -> <<status>>

deriveCategoryLabel(item) ==
    LET category == ToLowerCase(item.category)
        name == ToLowerCase(item.name)
    IN  IF Includes(category, "produce") \/ Includes(name, "kale") THEN <<"Fresh produce">>
        ELSE IF Includes(category, "protein") \/ Includes(name, "tofu") THEN <<"Protein source">>
        ELSE IF Includes(category, "grain") \/ Includes(name, "rice") THEN <<"Whole-grain staple">>
        ELSE <<"Pantry staple">>

deriveSuggestion(item) ==
    CASE item.status = "use-soon" ->
            <<"Use within", ToString(IF item.daysLeft # NoNumber THEN item.daysLeft ELSE 2)>>
      [] item.status = "restock" -> <<"Add to this week's shopping list">>
      [] item.status = "overflow" -> <<"Plan recipes to work through extras">>
      [] OTHER -> Undefined

\* the four KPI callouts of the heuristic
FallbackKpiCallouts(profile, expiring, restock, budgetDelta, upcomingNeeds) ==
    LET hasInventory == Len(profile.inventory) > 0
        activeEvents == Len(profile.events)
        Dated(item) == item.name \o <<ToString(item.expirationDate)>>
    IN  << Callout("pantryHealth", KPI_HEADLINES("pantryHealth"),
                   IF hasInventory THEN "green" ELSE "amber",
                   IF hasInventory
                   THEN <<"tracked items", ToString(Len(profile.inventory)),
                          ToString(Len(expiring)), ToString(Len(restock))>>
                   ELSE <<"No pantry items logged yet">>),
           Callout("wasteRisk", KPI_HEADLINES("wasteRisk"),
                   IF hasInventory
                   THEN (IF Len(expiring) > 0 THEN BUYER_STATUS_MOOD("use-soon")
                         ELSE BUYER_STATUS_MOOD("healthy"))
                   ELSE "amber",
                   IF Len(expiring) > 0
                   THEN <<"High waste risk">> \o Flatten(MapSeq(Take(expiring, 2), Dated))
                   ELSE <<"Waste risk is low">>),
           Callout("budgetHealth", KPI_HEADLINES("budgetHealth"),
                   IF budgetDelta >= 0 THEN "green" ELSE "amber",
                   IF budgetDelta >= 0 THEN <<"Tracking under budget", ToString(budgetDelta)>>
                   ELSE <<"Spending exceeded budget", ToString(0 - budgetDelta)>>),
           Callout("eventReadiness", KPI_HEADLINES("eventReadiness"),
                   IF activeEvents = 0 THEN "green"
                   ELSE IF Len(upcomingNeeds) > 0 THEN "amber" ELSE "green",
                   IF activeEvents > 0
                   THEN <<"upcoming plans", ToString(activeEvents)>> \o
                        (IF upcomingNeeds # << >> THEN Flatten(Take(upcomingNeeds, 3))
                         ELSE <<"remaining staples">>)
                   ELSE <<"No events scheduled">>) >>

\* the missing nutrients the heuristic lists
FallbackMissingNutrients(profile) ==
    LET inv == profile.inventory
        CategoryHas(w) == \E i \in 1..Len(inv) : Includes(ToLowerCase(inv[i].category), w)
        NameHas(w) == \E i \in 1..Len(inv) : Includes(ToLowerCase(inv[i].name), w)
    IN  (IF ~CategoryHas("produce") THEN << <<"Fresh produce for vitamins A & C">> >> ELSE << >>)
        \o (IF ~(NameHas("tofu") \/ CategoryHas("protein"))
            THEN << <<"Lean protein options to balance meals">> >> ELSE << >>)
        \o (IF ~(NameHas("rice") \/ CategoryHas("grain"))
            THEN << <<"Whole grains for sustained energy">> >> ELSE << >>)

\* the nutrition recommendations of the heuristic
FallbackNutritionRecommendations(missingNutrients, offers) ==
    LET Missing(w) == \E i \in 1..Len(missingNutrients) : missingNutrients[i] = <<w>>
        Store(k, tpl) ==
            IF Len(offers) >= k /\ offers[k].storeName # << >>
            THEN <<tpl>> \o offers[k].storeName ELSE Undefined
        listed ==
            (IF Missing("Fresh produce for vitamins A & C")
             THEN <<Recommendation(<<"Leafy greens mix">>, <<"Boosts vitamins">>,
                                   Store(1, "Check produce bundles"), "green")>>
             ELSE << >>)
            \o (IF Missing("Lean protein options to balance meals")
                THEN <<Recommendation(<<"Plant-based protein">>, <<"Adds versatile protein">>,
                                      Store(2, "See markdowns"), "amber")>>
                ELSE << >>)
            \o (IF Missing("Whole grains for sustained energy")
                THEN <<Recommendation(<<"Whole-grain wraps">>, <<"Supports quick lunches">>,
                                      Store(1, "Browse bakery aisle"), "green")>>
                ELSE << >>)
    IN  IF listed = << >> /\ Len(offers) > 0
        THEN <<Recommendation(IF offers[1].items # << >> THEN offers[1].items[1]
                              ELSE <<"Seasonal produce bundle">>,
                              <<"Adds freshness">>,
                              <<"Leverage offer">> \o offers[1].storeName
                                  \o offers[1].validThrough,
                              "green")>>
        ELSE listed

\* the three-day meal plan of the heuristic
FallbackMealPlan(hasInventory) ==
    LET AddOn(keyword, detail) ==
            IF hasInventory THEN << >> ELSE <<formatInsight(<<keyword>>, "green", <<detail>>)>>
    IN  << MealDay(<<"Day 1">>,
                   << formatInsight(<<"BREAKFAST">>, "green",
                          IF hasInventory THEN <<"parfait with pantry granola">>
                          ELSE <<"parfait with local granola">>),
                      formatInsight(<<"LUNCH">>, "green",
                          IF hasInventory THEN <<"Chickpea grain bowl">>
                          ELSE <<"Market grain bowl">>),
                      formatInsight(<<"DINNER">>, IF hasInventory THEN "amber" ELSE "green",
                          IF hasInventory THEN <<"Use-soon sweet potatoes">>
                          ELSE <<"Roasted sweet potatoes">>) >>,
                   AddOn("GROCERY BOOST", "Pick up pre-washed greens")),
           MealDay(<<"Day 2">>,
                   << formatInsight(<<"BREAKFAST">>, "green", <<"Spinach smoothie">>),
                      formatInsight(<<"LUNCH">>, "green", <<"Whole-grain wrap">>),
                      formatInsight(<<"DINNER">>, "amber", <<"One-pan tofu stir-fry">>) >>,
                   AddOn("MARKET PICKUP", "Add stir-fry veggie pack")),
           MealDay(<<"Day 3">>,
                   << formatInsight(<<"BRUNCH">>, "green", <<"Veggie frittata">>),
                      formatInsight(<<"SNACK">>, "green", <<"Cranberry spritzer">>),
                      formatInsight(<<"DINNER">>, "green", <<"Sheet-pan citrus salmon">>) >>,
                   AddOn("BUNDLE SAVE", "Grab omega-rich salmon")) >>

FallbackDietSchedule ==
    << DietDay(<<"Day 1">>,
               formatInsight(<<"FIBER FOCUS">>, "green", <<"Combine legumes with leafy greens">>),
               formatInsight(<<"PROTEIN BOOST">>, "green", <<"Add Greek yogurt or tofu">>)),
       DietDay(<<"Day 2">>,
               formatInsight(<<"HYDRATION">>, "green", <<"Sip infused water">>),
               formatInsight(<<"CARB BALANCE">>, "amber", <<"Pair whole grains with veggies">>)),
       DietDay(<<"Day 3">>,
               formatInsight(<<"SOCIAL BALANCE">>, "green", <<"Pre-portion servings">>),
               formatInsight(<<"TREAT SMART">>, "amber", <<"Use fruit-forward desserts">>)) >>

fallbackBuyerInsights(profile, offers) ==
    LET inv == profile.inventory
        IsUseSoon(item) == item.status = "use-soon"
        IsRestock(item) == item.status = "restock"
        IsHealthy(item) == item.status = "healthy"
        expiring == Filter(inv, IsUseSoon)
        restock == Filter(inv, IsRestock)
        healthiest == Filter(inv, IsHealthy)
        hasInventory == Len(inv) > 0
        recentSpend == SumTotals(Take(profile.purchases, 3))
        budgetDelta == profile.budgetPerWeek - recentSpend
        activeEvents == Len(profile.events)
        Open(entry) == entry.status # "covered"
        Need(entry) == entry.name \o <<ToString(entry.quantity)>> \o entry.unit
        Needs(event) == MapSeq(Filter(event.shoppingList, Open), Need)
        upcomingNeeds == Flatten(MapSeq(profile.events, Needs))
        stapleNames == IF JoinNames(Take(healthiest, 2)) # << >>
                       THEN JoinNames(Take(healthiest, 2)) ELSE <<"pantry staples">>
        urgentNames == JoinNames(Take(expiring, 2))
        heroSummary ==
            IF hasInventory
            THEN (IF urgentNames # << >>
                  THEN <<"Good staples">> \o stapleNames \o <<"but fresh items">> \o urgentNames
                  ELSE <<"Pantry staples look solid">> \o stapleNames)
            ELSE <<"Pantry is empty">>
        overviewCommentary ==
            IF hasInventory
            THEN <<"Recent spend", ToString(recentSpend), ToString(profile.budgetPerWeek),
                   IF budgetDelta >= 0 THEN "leaves room" ELSE "is running hot">>
                 \o (IF activeEvents > 0 THEN <<"Event readiness tracks", ToString(activeEvents)>>
                     ELSE <<"No events on deck">>)
            ELSE <<"Add what's in your fridge or pantry">>
        first3 ==
            << IF Len(expiring) > 0
               THEN formatInsight(<<"USE EGGS & KALE">>, "red",
                        <<"Plan meals around">> \o JoinNames(expiring) \o
                        <<ToString(IF expiring[1].daysLeft # NoNumber
                                   THEN expiring[1].daysLeft ELSE 2)>>)
               ELSE formatInsight(<<"INVENTORY CHECK">>,
                        IF hasInventory THEN "green" ELSE "amber",
                        IF hasInventory THEN <<"Quick shelf scan">> ELSE <<"Log staples">>),
               IF Len(restock) > 0
               THEN formatInsight(<<"RESTOCK GREENS">>, BUYER_STATUS_MOOD("restock"),
                        <<"Add to the next trip">> \o JoinNames(restock))
               ELSE formatInsight(<<"KEEP ROTATING">>, BUYER_STATUS_MOOD("healthy"),
                        (IF Len(healthiest) > 0 THEN healthiest[1].name
                         ELSE <<"Leafy greens">>) \o <<"are in great shape">>),
               formatInsight(<<"PLAN POTLUCK">>, "amber",
                        IF activeEvents > 0 THEN <<"Finalize potluck dishes">>
                        ELSE <<"No events scheduled">>) >>
        recommendations ==
            IF Len(first3) < 3
            THEN Append(first3, formatInsight(<<"MEAL PREP">>, "green", <<"Batch roast veggies">>))
            ELSE first3
        Highlight(offer) ==
            formatInsight(IF offer.type = "bundle" THEN <<"BUNDLE">> ELSE <<"MARKDOWN">>,
                          IF offer.discountPercent >= 15 THEN "green" ELSE "amber",
                          offer.storeName \o offer.description \o offer.validThrough)
        offerHighlights == MapSeq(Take(offers, 3), Highlight)
        inventorySuggestions ==
            offerHighlights \o
            (IF ~hasInventory
             THEN << formatInsight(<<"STARTER STAPLES">>, "green", <<"Add chickpeas">>),
                     formatInsight(<<"LEAN PROTEIN">>, "green", <<"Pick up tofu">>) >>
             ELSE << >>)
        Annotate(item) ==
            Annotation(item.name, BUYER_STATUS_MOOD(item.status), statusLabelMap(item.status),
                       deriveCategoryLabel(item), deriveSuggestion(item))
        missingNutrients == FallbackMissingNutrients(profile)
        pantryNutrition ==
            Pantry(IF hasInventory
                   THEN <<"Pantry leans on">> \o ToLowerCase(stapleNames)
                   ELSE <<"Macro balance unavailable until pantry items are logged.">>,
                   missingNutrients,
                   FallbackNutritionRecommendations(missingNutrients, offers),
                   IF Len(missingNutrients) > 1 THEN "amber" ELSE "green", FALSE, << >>)
        deals == IF Len(offerHighlights) > 0 THEN offerHighlights
                 ELSE <<formatInsight(<<"LOCAL TIP">>, "amber", <<"Check Fresh Grocer weekly ad">>)>>
        dealHighlights ==
            IF ~hasInventory /\ Len(deals) < 3
            THEN Append(deals, formatInsight(<<"COMMUNITY CO-OP">>, "green", <<"Join the CSA">>))
            ELSE deals
    IN  [heroSummary |-> heroSummary,
         overviewCommentary |-> overviewCommentary,
         kpiCallouts |->
             FallbackKpiCallouts(profile, expiring, restock, budgetDelta, upcomingNeeds),
         recommendations |-> recommendations,
         inventoryAnnotations |-> MapSeq(inv, Annotate),
         inventorySuggestions |-> inventorySuggestions,
         pantryNutrition |-> pantryNutrition,
         mealPlan |-> FallbackMealPlan(hasInventory),
         dietSchedule |-> FallbackDietSchedule,
         dealHighlights |-> dealHighlights]

\* a heuristic that would list bundle ideas only for the offers at hand
BundleIdeasOffersOnly(profile, offers) ==
    LET Idea(offer) ==
            formatInsight(<<"BUNDLE IDEA">>, "green",
                          offer.storeName \o profile.store.name \o offer.description)
    IN  MapSeq(offers, Idea)

\* bundleIdeas of fallbackSellerInsights
FallbackBundleIdeas(profile, offers) ==
    LET Idea(offer) ==
            formatInsight(<<"BUNDLE IDEA">>, "green",
                          offer.storeName \o profile.store.name \o offer.description)
    IN  IF Len(offers) > 0 THEN MapSeq(offers, Idea)
        ELSE <<formatInsight(<<"COMMUNITY EVENT">>, "amber", <<"Partner with local CSA">>)>>

fallbackSellerInsights(profile, offers) ==
    LET Risky(item) == item.status # "healthy"
        riskyItems == Filter(profile.inventory, Risky)
        topSignals == Take(profile.demandSignals, 2)
        Zip(signal) == <<signal.zip>>
        zips == IF Flatten(MapSeq(topSignals, Zip)) # << >> THEN Flatten(MapSeq(topSignals, Zip))
                ELSE <<profile.store.zip>>
        Alert(item) ==
            formatInsight(item.name, SELLER_STATUS_MOOD(item.status),
                          <<ToString(item.daysOnHand), item.status, ToString(item.margin)>>)
    IN  [summary |->
            << formatInsight(<<"SKU COVERAGE">>, IF Len(riskyItems) > 0 THEN "amber" ELSE "green",
                   <<"tracked items", ToString(Len(profile.inventory)), ToString(Len(riskyItems))>>),
               formatInsight(<<"DEMAND LIFT">>, "green",
                   <<"upside forecast",
                     ToString(IF Len(topSignals) > 0 THEN topSignals[1].expectedLift ELSE 18)>>
                   \o zips) >>,
         recommendedActions |->
            << IF Len(riskyItems) > 0
               THEN formatInsight(<<"SPOILAGE RISK">>, "red",
                        <<"Launch">> \o (IF Len(offers) > 0 THEN offers[1].description
                                         ELSE <<"flash bundle">>)
                        \o riskyItems[1].name \o <<ToString(riskyItems[1].daysOnHand + 2)>>)
               ELSE formatInsight(<<"INVENTORY HEALTH">>, "green", <<"All monitored SKUs look healthy">>),
               formatInsight(<<"SUPPLY SYNC">>, "amber",
                        <<"Align vendors">> \o
                        (IF Len(topSignals) > 0 /\ topSignals[1].focusItems # << >>
                         THEN topSignals[1].focusItems[1] ELSE <<"seasonal produce">>)),
               formatInsight(<<"BUYER ALIGNMENT">>, "green",
                        <<"Feature">> \o
                        (IF Len(offers) > 1 /\ offers[2].items # << >>
                         THEN offers[2].items[1] ELSE <<"meal bundles">>)) >>,
         bundleIdeas |-> FallbackBundleIdeas(profile, offers),
         restockAlerts |->
            IF Len(riskyItems) > 0 THEN MapSeq(riskyItems, Alert)
            ELSE <<formatInsight(<<"FORECAST SCAN">>, "green", <<"No critical risks detected">>)>>]

-----------------------------------------------------------------------------
(* JSON text: ai.ts.  A text is a sequence of tokens: the characters           *)
(* { } [ ] " , : / \ 5, white space, the three backticks of a code fence, and  *)
(* words of letters (k, json, null).  The keys of an object parsed from text   *)
(* are token sequences.                                                        *)

\* the three backticks that open or close a code fence
Fence == "fence"

Letters == {"k", "json", "null"}
Digits == {"5"}

\* [A-Za-z_\$@] and [A-Za-z0-9_\$@-]
IsIdentStart(c) == c \in Letters \cup {"_", "$", "@"}
IsIdentChar(c) == IsIdentStart(c) \/ c \in Digits \/ c = "-"

\* String.prototype.slice(n)
Drop(s, n) == SubSeq(s, n + 1, Len(s))

\* String.prototype.indexOf / lastIndexOf, 1-based; 0 when c does not occur
IndexOf(s, c) ==
    IF \E i \in 1..Len(s) : s[i] = c
    THEN CHOOSE i \in 1..Len(s) : s[i] = c /\ \A j \in 1..(i - 1) : s[j] # c
    ELSE 0

LastIndexOf(s, c) ==
    IF \E i \in 1..Len(s) : s[i] = c
    THEN CHOOSE i \in 1..Len(s) : s[i] = c /\ \A j \in (i + 1)..Len(s) : s[j] # c
    ELSE 0

\* what a parsing step returns: the value and the text left, or a SyntaxError
Parsed(value, rest) == [ok |-> TRUE, value |-> value, rest |-> rest]
NotParsed == [ok |-> FALSE, value |-> JNull, rest |-> << >>]

\* JSON.parse, a string after its opening quote: it ends at the next quote that
\* is not escaped and holds no raw control character
RECURSIVE StringBody(_, _)
StringBody(s, acc) ==
    IF s = << >> THEN NotParsed
    ELSE IF Head(s) = "\"" THEN Parsed(JStr(acc), Tail(s))
    ELSE IF Head(s) \in {"\n", "\t"} THEN NotParsed
    ELSE IF Head(s) = "\\"
         THEN IF Len(s) >= 2 /\ s[2] \in {"\"", "\\", "/"}
              THEN StringBody(Drop(s, 2), Append(acc, s[2]))
              ELSE NotParsed
    ELSE StringBody(Tail(s), Append(acc, Head(s)))

\* JSON.parse, a number: a run of digits
RECURSIVE NumberRun(_, _)
NumberRun(s, n) ==
    IF s # << >> /\ Head(s) \in Digits THEN NumberRun(Tail(s), 10 * n + 5)
    ELSE Parsed(JNum(n), s)

\* JSON.parse, a member: a key that occurs again keeps its place and takes the
\* later value
SetMember(members, key, value) ==
    IF \E i \in 1..Len(members) : members[i].k = key
    THEN [i \in 1..Len(members) |->
             IF members[i].k = key THEN KV(key, value) ELSE members[i]]
    ELSE Append(members, KV(key, value))

\* JSON.parse, a value, the elements of an array and the members of an object
RECURSIVE ParseValue(_), ParseElements(_, _), ParseMembers(_, _)
ParseValue(text) ==
    LET s == TrimStart(text)
        inner == TrimStart(Tail(s))
    IN  IF s = << >> THEN NotParsed
        ELSE CASE Head(s) = "{" ->
                      IF inner # << >> /\ Head(inner) = "}" THEN Parsed(JObj(<< >>), Tail(inner))
                      ELSE ParseMembers(inner, << >>)
               [] Head(s) = "[" ->
                      IF inner # << >> /\ Head(inner) = "]" THEN Parsed(JArr(<< >>), Tail(inner))
                      ELSE ParseElements(inner, << >>)
               [] Head(s) = "\"" -> StringBody(Tail(s), << >>)
               [] Head(s) \in Digits -> NumberRun(s, 0)
               [] Head(s) = "null" -> Parsed(JNull, Tail(s))
               [] OTHER -> NotParsed

ParseElements(s, acc) ==
    LET v == ParseValue(s)
        rest == TrimStart(v.rest)
    IN  IF ~v.ok \/ rest = << >> THEN NotParsed
        ELSE IF Head(rest) = "]" THEN Parsed(JArr(Append(acc, v.value)), Tail(rest))
        ELSE IF Head(rest) = "," THEN ParseElements(Tail(rest), Append(acc, v.value))
        ELSE NotParsed

ParseMembers(s, acc) ==
    LET k == TrimStart(s)
        key == IF k # << >> /\ Head(k) = "\"" THEN StringBody(Tail(k), << >>) ELSE NotParsed
        colon == TrimStart(key.rest)
        v == IF key.ok /\ colon # << >> /\ Head(colon) = ":" THEN ParseValue(Tail(colon))
             ELSE NotParsed
        rest == TrimStart(v.rest)
        members == SetMember(acc, key.value.s, v.value)
    IN  IF ~v.ok \/ rest = << >> THEN NotParsed
        ELSE IF Head(rest) = "}" THEN Parsed(JObj(members), Tail(rest))
        ELSE IF Head(rest) = "," THEN ParseMembers(Tail(rest), members)
        ELSE NotParsed

\* JSON.parse of a text: the value, or a SyntaxError
ParseJsonText(text) ==
    LET v == ParseValue(text)
    IN  IF v.ok /\ TrimStart(v.rest) = << >> THEN [thrown |-> FALSE, value |-> v.value]
        ELSE [thrown |-> TRUE, value |-> JNull]

\* text.match(<fence>json\s*([\s\S]*?)<fence>) ?? text.match(<fence>\s*([\s\S]*?)<fence>):
\* whether one matched and the group it captured.  The first fence that opens
\* a match is followed (for the first pattern, after the word json) by a later
\* fence; the group runs from the first token that is not white space up to
\* the next fence
FencedGroup(text) ==
    LET From(i, word) == IF word THEN i + 2 ELSE i + 1
        Opens(i, word) ==
            /\ text[i] = Fence
            /\ word => (i < Len(text) /\ text[i + 1] = "json")
            /\ \E j \in From(i, word)..Len(text) : text[j] = Fence
        Group(i, word) ==
            LET close == CHOOSE j \in From(i, word)..Len(text) :
                             text[j] = Fence /\ \A m \in From(i, word)..(j - 1) : text[m] # Fence
            IN  TrimStart(SubSeq(text, From(i, word), close - 1))
        First(word) ==
            CHOOSE i \in 1..Len(text) : Opens(i, word) /\ \A m \in 1..(i - 1) : ~Opens(m, word)
    IN  IF \E i \in 1..Len(text) : Opens(i, TRUE)
        THEN [matched |-> TRUE, group |-> Group(First(TRUE), TRUE)]
        ELSE IF \E i \in 1..Len(text) : Opens(i, FALSE)
        THEN [matched |-> TRUE, group |-> Group(First(FALSE), FALSE)]
        ELSE [matched |-> FALSE, group |-> << >>]

\* extractJsonPayload on a text: the fenced group, or the text from the first {
\* to the last }, or from the first [ to the last ], or the text, trimmed
ExtractPayload(text) ==
    LET fenced == FencedGroup(text)
        firstBrace == IndexOf(text, "{")
        lastBrace == LastIndexOf(text, "}")
        firstBracket == IndexOf(text, "[")
        lastBracket == LastIndexOf(text, "]")
    IN  IF fenced.matched /\ fenced.group # << >> THEN Trim(fenced.group)
        ELSE IF firstBrace # 0 /\ lastBrace # 0 /\ firstBrace < lastBrace
        THEN Trim(SubSeq(text, firstBrace, lastBrace))
        ELSE IF firstBracket # 0 /\ lastBracket # 0 /\ firstBracket < lastBracket
        THEN Trim(SubSeq(text, firstBracket, lastBracket))
        ELSE Trim(text)

\* the text from its first line break on
FromEol(s) == IF IndexOf(s, "\n") = 0 THEN << >> ELSE Drop(s, IndexOf(s, "\n") - 1)

\* out.replace(/(^|[^:])\/\/[^\n\r]*/g, '$1'): a // at the start of the text or
\* after a character other than a colon is removed up to the end of its line
RECURSIVE StripLineComments(_, _)
StripLineComments(s, atStart) ==
    LET Slashes(t) == Len(t) >= 2 /\ t[1] = "/" /\ t[2] = "/"
    IN  IF s = << >> THEN << >>
        ELSE IF atStart /\ Slashes(s) THEN StripLineComments(FromEol(s), FALSE)
        ELSE IF Head(s) # ":" /\ Slashes(Tail(s))
        THEN <<Head(s)>> \o StripLineComments(FromEol(Tail(s)), FALSE)
        ELSE <<Head(s)>> \o StripLineComments(Tail(s), FALSE)

\* out.replace(/<fence>json|<fence>/gi, '')
RECURSIVE StripFences(_)
StripFences(s) ==
    IF s = << >> THEN << >>
    ELSE IF Head(s) = Fence
    THEN StripFences(IF Len(s) >= 2 /\ s[2] = "json" THEN Drop(s, 2) ELSE Tail(s))
    ELSE <<Head(s)>> \o StripFences(Tail(s))

\* the length of the run of identifier characters s starts with; 0 when s does
\* not start with an identifier
RECURSIVE IdentChars(_)
IdentChars(s) == IF s # << >> /\ IsIdentChar(Head(s)) THEN 1 + IdentChars(Tail(s)) ELSE 0

IdentRun(s) == IF s # << >> /\ IsIdentStart(Head(s)) THEN IdentChars(s) ELSE 0

\* out.replace(/([\{,\n\r\s])(\s*)([A-Za-z_\$@][A-Za-z0-9_\$@-]*?)\s*:\s*/g, '$1"$3": ')
RECURSIVE QuoteKeys(_)
QuoteKeys(s) ==
    LET afterLead == TrimStart(Tail(s))
        run == IdentRun(afterLead)
        afterIdent == TrimStart(Drop(afterLead, run))
    IN  IF s = << >> THEN << >>
        ELSE IF /\ Head(s) \in {"{", ","} \/ IsSpace(Head(s))
                /\ run > 0
                /\ afterIdent # << >> /\ Head(afterIdent) = ":"
        THEN <<Head(s), "\"">> \o SubSeq(afterLead, 1, run) \o <<"\"", ":", " ">>
                 \o QuoteKeys(TrimStart(Tail(afterIdent)))
        ELSE <<Head(s)>> \o QuoteKeys(Tail(s))

\* out.replace(/,\s*(}[\])])/g, '$1')
RECURSIVE StripCommasBeforeClosers(_)
StripCommasBeforeClosers(s) ==
    LET next == TrimStart(Tail(s))
    IN  IF s = << >> THEN << >>
        ELSE IF Head(s) = "," /\ Len(next) >= 2 /\ next[1] = "}" /\ next[2] \in {"]", ")"}
        THEN <<next[1], next[2]>> \o StripCommasBeforeClosers(Drop(next, 2))
        ELSE <<Head(s)>> \o StripCommasBeforeClosers(Tail(s))

\* out.replace(/,\s*([}\]])/g, '$1')
RECURSIVE StripTrailingCommas(_)
StripTrailingCommas(s) ==
    LET next == TrimStart(Tail(s))
    IN  IF s = << >> THEN << >>
        ELSE IF Head(s) = "," /\ next # << >> /\ Head(next) \in {"}", "]"}
        THEN <<Head(next)>> \o StripTrailingCommas(Tail(next))
        ELSE <<Head(s)>> \o StripTrailingCommas(Tail(s))

\* the text after the commas it starts with
RECURSIVE AfterCommas(_)
AfterCommas(s) == IF s # << >> /\ Head(s) = "," THEN AfterCommas(Tail(s)) ELSE s

\* out.replace(/,\s*,+/g, ',')
RECURSIVE CollapseCommas(_)
CollapseCommas(s) ==
    LET next == TrimStart(Tail(s))
    IN  IF s = << >> THEN << >>
        ELSE IF Head(s) = "," /\ next # << >> /\ Head(next) = ","
        THEN <<",">> \o CollapseCommas(AfterCommas(next))
        ELSE <<Head(s)>> \o CollapseCommas(Tail(s))

\* sanitizeJsonString on a text.  No text of the model holds a block comment or
\* a control character other than tab and line break, so the two replacements
\* that remove those leave it as it is
SanitizeText(text) ==
    Trim(CollapseCommas(StripTrailingCommas(StripCommasBeforeClosers(
        QuoteKeys(StripFences(StripLineComments(text, TRUE)))))))

\* repairLocal, the loop that balances quotes, brackets and braces
RECURSIVE Balance(_, _)
Balance(s, st) ==
    LET ch == Head(s)
        inString == IF ch = "\"" /\ ~st.escaped THEN ~st.inString ELSE st.inString
        Delta(open, close) == IF inString THEN 0 ELSE IF ch = open THEN 1
                              ELSE IF ch = close THEN -1 ELSE 0
    IN  IF s = << >> THEN st
        ELSE IF inString /\ ch = "\\" /\ ~st.escaped
        THEN Balance(Tail(s), [st EXCEPT !.inString = inString, !.escaped = TRUE])
        ELSE Balance(Tail(s), [inString |-> inString, escaped |-> FALSE,
                               braceDelta |-> st.braceDelta + Delta("{", "}"),
                               bracketDelta |-> st.bracketDelta + Delta("[", "]")])

\* ch.repeat(n)
Repeat(ch, n) == [i \in 1..n |-> ch]

\* a variant that would leave open strings, brackets and braces open
RepairTextOpen(text) ==
    LET last == Max(LastIndexOf(text, "}"), LastIndexOf(text, "]"))
        candidate == IF last # 0 /\ last < Len(text) THEN SubSeq(text, 1, last) ELSE text
    IN  IF ~ParseJsonText(text).thrown THEN text ELSE SanitizeText(candidate)

\* repairLocal on a text: a text that parses is kept; otherwise what follows the
\* last closing bracket or brace is cut, an open string, open brackets and open
\* braces are closed, and the result is sanitized
RepairText(text) ==
    LET last == Max(LastIndexOf(text, "}"), LastIndexOf(text, "]"))
        candidate == IF last # 0 /\ last < Len(text) THEN SubSeq(text, 1, last) ELSE text
        st == Balance(candidate, [inString |-> FALSE, escaped |-> FALSE,
                                  braceDelta |-> 0, bracketDelta |-> 0])
    IN  IF ~ParseJsonText(text).thrown THEN text
        ELSE SanitizeText(candidate \o (IF st.inString THEN <<"\"">> ELSE << >>)
                              \o Repeat("]", st.bracketDelta) \o Repeat("}", st.braceDelta))

-----------------------------------------------------------------------------
(* The LLM: ai.ts.  A reply text is either raw, with the string of its tokens *)
(* as its value, or told by the stage of callAiJson at which it parses and by *)
(* the value it parses to.                                                    *)

Text(form, value) == [form |-> form, value |-> value]

\* the null callAi returns
NoText == Text("none", JNull)

Reply(kind, text) == [kind |-> kind, text |-> text]

\* extractResponseText: the text of the response trimmed, null when it is blank
extractResponseText(text) ==
    IF text.form # "raw" THEN text
    ELSE IF Trim(text.value.s) = << >> THEN NoText
    ELSE Text("raw", JStr(Trim(text.value.s)))

\* callAi: null without a client, when the request throws and when the
\* response carries no text
callAi(client, reply) ==
    IF ~client THEN NoText
    ELSE IF reply.kind = "text" THEN extractResponseText(reply.text)
    ELSE NoText

\* the fenced block, or the text itself
extractJsonPayload(text) ==
    IF text.form = "raw" THEN Text("raw", JStr(ExtractPayload(text.value.s)))
    ELSE IF text.form = "fenced" THEN Text("json", text.value)
    ELSE text

\* trailing commas, comments and unquoted keys are fixed
sanitizeJsonString(text) ==
    IF text.form = "raw" THEN Text("raw", JStr(SanitizeText(text.value.s)))
    ELSE IF text.form = "trailing-comma" THEN Text("json", text.value)
    ELSE text

\* dangling quotes, brackets and braces are closed
repairLocal(text) ==
    IF text.form = "raw" THEN Text("raw", JStr(RepairText(text.value.s)))
    ELSE IF text.form = "json" THEN text
    ELSE sanitizeJsonString(IF text.form = "truncated" THEN Text("json", text.value) ELSE text)

\* JSON.parse: the value, or a SyntaxError
JsonParse(text) ==
    IF text.form = "raw" THEN ParseJsonText(text.value.s)
    ELSE IF text.form = "json" THEN [thrown |-> FALSE, value |-> text.value]
    ELSE [thrown |-> TRUE, value |-> JNull]

\* the value JSON.parse returned, or what the catch block returns when it threw
ParsedOr(parsed, caught) == IF ~parsed.thrown THEN parsed.value ELSE caught

\* callAiJson once the payload is sanitized: the sanitized payload is parsed,
\* and when that throws the repaired one; null when that throws too
parseSanitized(sanitized) ==
    ParsedOr(JsonParse(sanitized), ParsedOr(JsonParse(repairLocal(sanitized)), JNull))

\* callAiJson once the payload is extracted: the payload is parsed as it is, and
\* sanitized when that throws
parsePayload(payload) ==
    ParsedOr(JsonParse(payload), parseSanitized(sanitizeJsonString(payload)))

\* callAiJson once callAi has returned
parseRaw(raw) == IF raw = NoText THEN JNull ELSE parsePayload(extractJsonPayload(raw))

\* a variant that would turn a failed call into an empty object
callAiJsonEmptyObject(client, reply) ==
    LET raw == callAi(client, reply)
    IN  IF raw = NoText THEN JObj(<< >>) ELSE JsonParse(extractJsonPayload(raw)).value

callAiJson(client, reply) == parseRaw(callAi(client, reply))

\* Math.round(total / count) for a total that is not negative
RoundDiv(total, count) == (2 * total + count) \div (2 * count)

ScoreMood(score) == IF score >= 75 THEN "green" ELSE IF score >= 45 THEN "amber" ELSE "red"

\* x ?? otherwise
Coalesce(v, otherwise) == IF v.t \in {"null", "undefined"} THEN otherwise ELSE v

\* the body of the try block of generateBuyerAiInsights: the summary built from
\* the nutrition reply, or a TypeError for an entry that is null
MapNutrition(nutritionData, parsed) ==
    LET summaryText == Get(nutritionData, "summaryText")
        categories == Get(nutritionData, "categories")
        potentialGaps == Get(nutritionData, "potentialGaps")
        additions == Get(nutritionData, "recommendedAdditions")
        sumText == IF IsString(summaryText) THEN Trim(summaryText.s)
                   ELSE IF parsed # NoPantry THEN parsed.macroBalance ELSE << >>
        cats == IF IsArray(categories) THEN categories.a ELSE << >>
        missing == IF IsArray(potentialGaps) THEN MapSeq(potentialGaps.a, StringOf)
                   ELSE IF parsed # NoPantry THEN parsed.missingNutrients ELSE << >>
        Rec(r) == Recommendation(StringOf(Coalesce(Get(r, "item"), JStr(<< >>))),
                                 StringOf(Coalesce(Get(r, "reason"), JStr(<< >>))),
                                 IF Truthy(Get(r, "storeSuggestion"))
                                 THEN StringOf(Get(r, "storeSuggestion")) ELSE Undefined,
                                 ensureMood(Coalesce(Get(r, "mood"), JStr(<<"green">>)), "amber"))
        recs == IF IsArray(additions) THEN MapSeq(additions.a, Rec)
                ELSE IF parsed # NoPantry THEN parsed.recommendedAdditions ELSE << >>
        Score(c) == IF Get(c, "score").t = "number" THEN Get(c, "score").n ELSE 0
        Total[i \in 0..Len(cats)] == IF i = 0 THEN 0 ELSE Total[i - 1] + Score(cats[i])
        avgScore == IF Len(cats) > 0 THEN RoundDiv(Total[Len(cats)], Len(cats)) ELSE 72
        Cell(c) == [id |-> StringOf(Coalesce(Get(c, "id"), JStr(<< >>))),
                    label |-> StringOf(Coalesce(Get(c, "label"), JStr(<< >>))),
                    score |-> Score(c), mood |-> ScoreMood(Score(c))]
        thrown == \/ IsArray(additions) /\ \E i \in 1..Len(additions.a) : GetThrows(additions.a[i])
                  \/ \E i \in 1..Len(cats) : GetThrows(cats[i])
    IN  IF thrown THEN [thrown |-> TRUE, value |-> NoPantry]
        ELSE [thrown |-> FALSE,
              value |-> Pantry(IF sumText # << >> THEN sumText
                               ELSE IF parsed # NoPantry THEN parsed.macroBalance ELSE << >>,
                               missing, recs, ScoreMood(avgScore), TRUE, MapSeq(cats, Cell))]

\* a mapping whose TypeError nothing would catch
TryMapNutritionUncaught(nutritionData, parsed) ==
    IF ~Truthy(nutritionData) THEN [thrown |-> FALSE, returned |-> FALSE, value |-> NoPantry]
    ELSE [thrown |-> MapNutrition(nutritionData, parsed).thrown,
          returned |-> ~MapNutrition(nutritionData, parsed).thrown,
          value |-> MapNutrition(nutritionData, parsed).value]

\* if (nutritionData) { try { ... return } catch { fall through } }
TryMapNutrition(nutritionData, parsed) ==
    IF ~Truthy(nutritionData) THEN [thrown |-> FALSE, returned |-> FALSE, value |-> NoPantry]
    ELSE [thrown |-> FALSE,
          returned |-> ~MapNutrition(nutritionData, parsed).thrown,
          value |-> MapNutrition(nutritionData, parsed).value]

\* parsed.length ? parsed : fallback
OrFallback(parsed, fallback) == IF parsed # << >> THEN parsed ELSE fallback

\* generateBuyerAiInsights, given what its three callAiJson calls returned
generateBuyerAiInsights(profile, offers, narrative, mealData, nutritionData) ==
    LET fallback == fallbackBuyerInsights(profile, offers)
        has == Truthy(narrative)
        mealPlan == IF Truthy(mealData) THEN parseMealPlan(Get(mealData, "mealPlan")) ELSE << >>
        dietSchedule ==
            IF Truthy(mealData) THEN parseDietSchedule(Get(mealData, "dietSchedule")) ELSE << >>
        dealHighlights == IF has THEN parseInsightArray(Get(narrative, "dealHighlights")) ELSE << >>
        heroSummary == IF has THEN TrimmedOr(Get(narrative, "heroSummary"), << >>) ELSE << >>
        overviewCommentary ==
            IF has THEN TrimmedOr(Get(narrative, "overviewCommentary"), << >>) ELSE << >>
        kpiCallouts == IF has THEN parseKpiCallouts(Get(narrative, "kpiCallouts")) ELSE << >>
        recommendations ==
            IF has THEN parseInsightArray(Get(narrative, "recommendations")) ELSE << >>
        inventoryAnnotations ==
            IF has THEN parseInventoryAnnotations(Get(narrative, "inventoryAnnotations")) ELSE << >>
        inventorySuggestions ==
            IF has THEN parseInsightArray(Get(narrative, "inventorySuggestions")) ELSE << >>
        parsedPantryNutrition ==
            IF has THEN parsePantryNutrition(Get(narrative, "pantryNutrition")) ELSE NoPantry
        mapped == TryMapNutrition(nutritionData, parsedPantryNutrition)
    IN  [thrown |-> mapped.thrown,
         heroSummary |-> OrFallback(heroSummary, fallback.heroSummary),
         overviewCommentary |-> OrFallback(overviewCommentary, fallback.overviewCommentary),
         kpiCallouts |-> OrFallback(kpiCallouts, fallback.kpiCallouts),
         recommendations |-> OrFallback(recommendations, fallback.recommendations),
         inventoryAnnotations |-> OrFallback(inventoryAnnotations, fallback.inventoryAnnotations),
         inventorySuggestions |-> OrFallback(inventorySuggestions, fallback.inventorySuggestions),
         pantryNutrition |->
             IF mapped.returned THEN mapped.value
             ELSE IF parsedPantryNutrition # NoPantry THEN parsedPantryNutrition
             ELSE fallback.pantryNutrition,
         dealHighlights |-> OrFallback(dealHighlights, fallback.dealHighlights),
         mealPlan |-> OrFallback(mealPlan, fallback.mealPlan),
         dietSchedule |-> OrFallback(dietSchedule, fallback.dietSchedule)]

\* generateSellerAiInsights, given what its callAiJson call returned
generateSellerAiInsights(profile, offers, parsed) ==
    LET fallback == fallbackSellerInsights(profile, offers)
    IN  IF ~Truthy(parsed)
        THEN [thrown |-> FALSE, summary |-> fallback.summary,
              recommendedActions |-> fallback.recommendedActions,
              bundleIdeas |-> fallback.bundleIdeas, restockAlerts |-> fallback.restockAlerts]
        ELSE [thrown |-> FALSE,
              summary |-> OrFallback(parseInsightArray(Get(parsed, "summary")), fallback.summary),
              recommendedActions |->
                  OrFallback(parseInsightArray(Get(parsed, "recommendedActions")),
                             fallback.recommendedActions),
              bundleIdeas |->
                  OrFallback(parseInsightArray(Get(parsed, "bundleIdeas")), fallback.bundleIdeas),
              restockAlerts |->
                  OrFallback(parseInsightArray(Get(parsed, "restockAlerts")),
                             fallback.restockAlerts)]

\* a listing that would not look at the zip
listOffersForAnyZip(file, zip) == file

\* listOffersForZip: the offers of the file that are for the zip
listOffersForZip(file, zip) == LET Here(offer) == offer.zip = zip IN Filter(file, Here)

\* the null buildBuyerDashboard / buildSellerDashboard return
NoDashboard == [found |-> FALSE]

\* the dashboard payload; an exception of the insight generator is not caught
Dashboard(profile, ai, forZip) ==
    [found |-> TRUE, thrown |-> ai.thrown, profile |-> profile, ai |-> ai, offers |-> forZip,
     emptyInventory |-> Len(profile.inventory) = 0]

-----------------------------------------------------------------------------
(* Requests *)

NoResult == [ok |-> FALSE, error |-> "none"]

\* an HTTP request to loginRoute / signupRoute: its content-type header, what its
\* body text is (blank, malformed, or JSON text) and the value JSON text parses to
Request(contentType, body, value) == [contentType |-> contentType, body |-> body, value |-> value]

\* a payload none of whose fields is present
NoPayload ==
    [email |-> Undefined, password |-> Undefined, role |-> "none", displayName |-> Undefined]

\* the JSON value null
NullBody == [t |-> "null", error |-> FALSE, payload |-> NoPayload]

\* a JSON object with the fields of payload and, if error, a key named error
ObjectBody(payload, error) == [t |-> "object", error |-> error, payload |-> payload]

\* safeParseJson: { error } for another content type, for a blank body and for
\* text JSON.parse rejects; the parsed value otherwise
safeParseJson(request) ==
    IF ~Includes(request.contentType, "application/json") THEN ObjectBody(NoPayload, TRUE)
    ELSE IF request.body = "blank" THEN ObjectBody(NoPayload, TRUE)
    ELSE IF request.body = "malformed" THEN ObjectBody(NoPayload, TRUE)
    ELSE request.value

\* no HTTP request: the handler was called directly
NoRequest == Request(Undefined, "none", "none")

\* history: the profile files as they were when an endpoint took the request
NoStores == [users |-> << >>, buyers |-> << >>, sellers |-> << >>]

\* the data files as they are now
Stores == [users |-> users, buyers |-> buyers, sellers |-> sellers]

Idle ==
    [op |-> "none", pc |-> "idle", email |-> Undefined, password |-> Undefined,
     role |-> "buyer", displayName |-> Undefined, userId |-> <<"none", 0>>, arg |-> 0,
     user |-> NoUser, prof |-> NoProfile, list |-> << >>, result |-> NoResult,
     status |-> 0, started |-> 0, narrative |-> JNull, mealData |-> JNull, nutritionData |-> JNull,
     parsed |-> JNull, failed |-> << >>, via |-> "none", http |-> NoRequest,
     before |-> NoStores, redirectTo |-> Undefined, reply |-> Reply("notext", NoText)]

Roles == {"buyer", "seller"}

Emails == {<<"a", "@", "x">>, <<" ", "A", "@", "x">>, <<"b", "@", "x">>, << >>}
Passwords == {<<"p">>, <<"p", " ">>, Undefined}
PayloadRoles == {"buyer", "seller", "admin"}
DisplayNames == {Undefined, <<"N", " ">>}

LoginPayloads == [email : Emails, password : Passwords, role : PayloadRoles]
SignupPayloads ==
    [email : Emails, password : Passwords, role : PayloadRoles, displayName : DisplayNames]

JsonType == <<"application/json">>

\* requests that are not a JSON object of the payload's fields: another content
\* type or none, a charset parameter, a blank body, malformed text, the value
\* null, and an object that also has a key named error
OddRequests(payload) ==
    { Request(<<"text/plain">>, "json", ObjectBody(payload, FALSE)),
      Request(Undefined, "json", ObjectBody(payload, FALSE)),
      Request(<<"application/json", ";", "charset=utf-8">>, "json", ObjectBody(payload, FALSE)),
      Request(JsonType, "blank", NullBody),
      Request(JsonType, "malformed", NullBody),
      Request(JsonType, "json", NullBody),
      Request(JsonType, "json", ObjectBody(payload, TRUE)) }

LoginRequests ==
    {Request(JsonType, "json", ObjectBody(p, FALSE)) : p \in LoginPayloads}
    \cup OddRequests([email |-> <<"a", "@", "x">>, password |-> <<"p">>, role |-> "buyer"])

SignupRequests ==
    {Request(JsonType, "json", ObjectBody(p, FALSE)) : p \in SignupPayloads}
    \cup OddRequests([email |-> <<"b", "@", "x">>, password |-> <<"p">>, role |-> "seller",
                      displayName |-> Undefined])

AllIdle == \A s \in Slots : reqs[s].pc = "idle"

StoreOf(role) == IF role = "buyer" THEN buyers ELSE sellers

\* a scaffold that would be filed under the id of another user
ScaffoldOfGuest(role, userId, displayName, day) ==
    IF role = "buyer" THEN BuyerScaffold(<<"buyer", 0>>, displayName, day)
    ELSE SellerScaffold(<<"seller", 0>>, displayName, day)

ScaffoldOf(role, userId, displayName, day) ==
    IF role = "buyer" THEN BuyerScaffold(userId, displayName, day)
    ELSE SellerScaffold(userId, displayName, day)

AuthFailure(error) == [ok |-> FALSE, error |-> error]

AuthSuccess(user) ==
    [ok |-> TRUE, user |-> [id |-> user.id, displayName |-> user.displayName, role |-> user.role]]

\* signupRoute: result.error.includes('already exists') ? 409 : 400, 201 on success
signupRoute(result) ==
    IF result.ok THEN 201 ELSE IF result.error = "already exists" THEN 409 ELSE 400

\* loginRoute: 401 when authenticateUser failed, 200 on success
loginRoute(result) == IF result.ok THEN 200 ELSE 401

\* `/${result.user.role}/dashboard?user=${result.user.id}`
RedirectTo(user) == <<"/", user.role, "/dashboard?user=", user.id>>

\* the handler returns `result`; its route turns it into a response
Return(r, result) ==
    [r EXCEPT !.pc = "done", !.result = result, !.list = << >>,
              !.status = IF r.op = "signup" THEN signupRoute(result)
                         ELSE IF r.op = "login" THEN loginRoute(result)
                         ELSE 0,
              !.redirectTo = IF result.ok THEN RedirectTo(result.user) ELSE Undefined]

\* a store operation returns the updated profile (ok) or throws; its endpoint
\* answers with `status`
Answer(r, status) == [r EXCEPT !.pc = "done", !.status = status, !.list = << >>]

\* registerUser up to its first await, in the request `base`: the payload is
\* trimmed and validated
RegisterUserStart(base, payload) ==
    LET email == OptTrim(payload.email)
        password == OptTrim(payload.password)
        r == [base EXCEPT !.op = "signup", !.pc = "find", !.email = email,
                          !.password = password, !.role = payload.role,
                          !.displayName = OptTrim(payload.displayName), !.started = today]
    IN  IF Falsy(email) \/ Falsy(password) THEN Return(r, AuthFailure("required"))
        ELSE IF payload.role \notin Roles THEN Return(r, AuthFailure("unsupported role"))
        ELSE r

\* registerUser is called
registerUser(s, payload) ==
    /\ reqs[s].pc = "idle"
    /\ reqs' = [reqs EXCEPT ![s] = RegisterUserStart(Idle, payload)]
    /\ UNCHANGED <<users, buyers, sellers, today, nextUuid, acked, offersFile, aiClient>>

\* authenticateUser up to its first await, in the request `base`: nothing is
\* trimmed
AuthenticateUserStart(base, payload) ==
    LET r == [base EXCEPT !.op = "login", !.pc = "find", !.email = payload.email,
                          !.password = payload.password, !.role = payload.role,
                          !.started = today]
    IN  IF Falsy(payload.email) \/ Falsy(payload.password)
        THEN Return(r, AuthFailure("required"))
        ELSE IF payload.role \notin Roles THEN Return(r, AuthFailure("unsupported role"))
        ELSE r

\* authenticateUser is called
authenticateUser(s, payload) ==
    /\ reqs[s].pc = "idle"
    /\ reqs' = [reqs EXCEPT ![s] = AuthenticateUserStart(Idle, payload)]
    /\ UNCHANGED <<users, buyers, sellers, today, nextUuid, acked, offersFile, aiClient>>

\* what a route does with the value safeParseJson returned: `'error' in body`
\* throws a TypeError for null, which nothing catches, so that the server
\* answers 500; a value with a key named error is answered with 400
RouteStart(base, op, body, started) ==
    IF body.t = "null"
    THEN [base EXCEPT !.op = op, !.pc = "done", !.status = 500,
                      !.result = AuthFailure("TypeError")]
    ELSE IF body.error
    THEN [base EXCEPT !.op = op, !.pc = "done", !.status = 400,
                      !.result = AuthFailure("body error")]
    ELSE started

\* POST /api/signup: signupRoute up to the first await of registerUser
PostSignup(s, request) ==
    LET base == [Idle EXCEPT !.http = request, !.before = Stores, !.started = today]
        body == safeParseJson(request)
    IN  /\ reqs[s].pc = "idle"
        /\ reqs' = [reqs EXCEPT ![s] =
                RouteStart(base, "signup", body, RegisterUserStart(base, body.payload))]
        /\ UNCHANGED <<users, buyers, sellers, today, nextUuid, acked, offersFile, aiClient>>

\* POST /api/login: loginRoute up to the first await of authenticateUser
PostLogin(s, request) ==
    LET base == [Idle EXCEPT !.http = request, !.before = Stores, !.started = today]
        body == safeParseJson(request)
    IN  /\ reqs[s].pc = "idle"
        /\ reqs' = [reqs EXCEPT ![s] =
                RouteStart(base, "login", body, AuthenticateUserStart(base, body.payload))]
        /\ UNCHANGED <<users, buyers, sellers, today, nextUuid, acked, offersFile, aiClient>>

\* a comparison that would ignore surrounding whitespace
PasswordMatchesTrimmed(user, password) == Trim(user.password) = OptTrim(password)

\* user.password !== password
PasswordMatches(user, password) == user.password = password

\* `await findUserByEmail(email)` resumes, in registerUser and in authenticateUser
FindUser(s) ==
    LET r == reqs[s]
        found == findUserByEmail(users, r.email)
    IN  /\ r.pc = "find"
        /\ reqs' = [reqs EXCEPT ![s] =
                IF r.op = "signup"
                THEN IF found # NoUser THEN Return(r, AuthFailure("already exists"))
                     ELSE [r EXCEPT !.pc = "createRead"]
                ELSE IF found = NoUser THEN Return(r, AuthFailure("no account"))
                     ELSE IF found.role # r.role THEN Return(r, AuthFailure("no account"))
                     ELSE IF ~PasswordMatches(found, r.password)
                          THEN Return(r, AuthFailure("incorrect"))
                     ELSE [r EXCEPT !.pc = "ensureGet", !.user = found]]
        /\ UNCHANGED <<users, buyers, sellers, today, nextUuid, acked, offersFile, aiClient>>

\* createUser: `await readUsers()` resumes, the new record is pushed
CreateRead(s) ==
    LET r == reqs[s]
        newUser == NewUser(r.email, r.password, r.role, r.displayName, nextUuid)
    IN  /\ r.pc = "createRead"
        /\ nextUuid <= MaxUuid
        /\ nextUuid' = nextUuid + 1
        /\ reqs' = [reqs EXCEPT ![s] =
                [r EXCEPT !.pc = "createWrite", !.user = newUser,
                          !.list = Append(users, newUser)]]
        /\ UNCHANGED <<users, buyers, sellers, today, acked, offersFile, aiClient>>

\* writeUsers / writeBuyerProfiles / writeSellerProfiles: the file holds the new
\* list when writeFile succeeds; when it fails the error is logged and swallowed
\* and the file is as before
writeFile(old, list, ok) == IF ok THEN list ELSE old

\* createUser: `await writeUsers(users)` resumes
CreateWrite(s) ==
    LET r == reqs[s]
    IN  /\ r.pc = "createWrite"
        /\ \E ok \in BOOLEAN : users' = writeFile(users, r.list, ok)
        /\ reqs' = [reqs EXCEPT ![s] = [r EXCEPT !.pc = "ensureGet", !.list = << >>]]
        /\ UNCHANGED <<buyers, sellers, today, nextUuid, acked, offersFile, aiClient>>

\* ensureBuyerProfileForUser / ensureSellerProfileForUser: `await getProfile`
\* resumes; an existing profile is returned, a missing one is scaffolded
EnsureGet(s) ==
    LET r == reqs[s]
        existing == getProfile(StoreOf(r.user.role), r.user.id)
    IN  /\ r.pc = "ensureGet"
        /\ reqs' = [reqs EXCEPT ![s] =
                IF existing # NoProfile THEN Return(r, AuthSuccess(r.user))
                ELSE [r EXCEPT !.pc = "upsertRead",
                        !.prof = ScaffoldOf(r.user.role, r.user.id, r.user.displayName, today)]]
        /\ UNCHANGED <<users, buyers, sellers, today, nextUuid, acked, offersFile, aiClient>>

\* appendBuyerInventoryItem is called
appendBuyerInventoryItem(s, input) ==
    /\ reqs[s].pc = "idle"
    /\ reqs' = [reqs EXCEPT ![s] =
            [Idle EXCEPT !.op = "append", !.pc = "getProfile", !.role = "buyer",
                         !.userId = input.userId, !.arg = input, !.started = today]]
    /\ UNCHANGED <<users, buyers, sellers, today, nextUuid, acked, offersFile, aiClient>>

\* removeBuyerInventoryItem is called
removeBuyerInventoryItem(s, userId, inventoryId) ==
    /\ reqs[s].pc = "idle"
    /\ reqs' = [reqs EXCEPT ![s] =
            [Idle EXCEPT !.op = "remove", !.pc = "getProfile", !.role = "buyer",
                         !.userId = userId, !.arg = inventoryId, !.started = today]]
    /\ UNCHANGED <<users, buyers, sellers, today, nextUuid, acked, offersFile, aiClient>>

\* addSellerInventoryEntry is called
addSellerInventoryEntry(s, userId, item) ==
    /\ reqs[s].pc = "idle"
    /\ reqs' = [reqs EXCEPT ![s] =
            [Idle EXCEPT !.op = "addSeller", !.pc = "getProfile", !.role = "seller",
                         !.userId = userId, !.arg = item, !.started = today]]
    /\ UNCHANGED <<users, buyers, sellers, today, nextUuid, acked, offersFile, aiClient>>

\* POST /api/buyer/ai-add-to-list up to its first await
aiAddToList(s, body) ==
    LET r == [Idle EXCEPT !.op = "aiAdd", !.pc = "getProfile", !.role = "buyer",
                          !.userId = body.userId, !.arg = body, !.started = today]
    IN  /\ reqs[s].pc = "idle"
        /\ reqs' = [reqs EXCEPT ![s] =
                IF body.userId = <<"none", 0>> \/ Trim(body.item) = << >> THEN Answer(r, 400)
                ELSE r]
        /\ UNCHANGED <<users, buyers, sellers, today, nextUuid, acked, offersFile, aiClient>>

\* Number(v) of a value that is not numeric
NaN == -2

\* String(v ?? '').trim()
StringTrim(v) == IF v = Undefined THEN << >> ELSE Trim(v)

\* a coercion that would take every missing number for 1
NumberOrOne(v, otherwise) == IF v = NoNumber THEN 1 ELSE v

\* Number(v ?? otherwise)
NumberOr(v, otherwise) == IF v = NoNumber THEN otherwise ELSE v

\* the request.json() body an inventory endpoint has read
JsonBody(body) == Request(Undefined, "json", body)

\* POST /api/buyer/inventory up to its first await: the fields are coerced and
\* validated, then appendBuyerInventoryItem is called
PostBuyerInventory(s, body) ==
    LET name == StringTrim(body.name)
        quantity == NumberOr(body.quantity, 0)
        unit == StringTrim(body.unit)
        category == IF StringTrim(body.category) = << >> THEN <<"Pantry">>
                    ELSE StringTrim(body.category)
        input == [userId |-> body.userId, name |-> name, quantity |-> quantity, unit |-> unit,
                  category |-> category, expirationDate |-> body.expirationDate]
        r == [Idle EXCEPT !.op = "append", !.pc = "getProfile", !.role = "buyer",
                          !.userId = body.userId, !.arg = input, !.started = today,
                          !.via = "buyerInventory", !.http = JsonBody(body),
                          !.before = Stores]
    IN  /\ reqs[s].pc = "idle"
        /\ reqs' = [reqs EXCEPT ![s] =
                IF body.userId = <<"none", 0>> \/ name = << >> \/ unit = << >>
                       \/ quantity = NaN \/ quantity <= 0
                THEN Answer(r, 400)
                ELSE r]
        /\ UNCHANGED <<users, buyers, sellers, today, nextUuid, acked, offersFile, aiClient>>

\* POST /api/seller/inventory up to its first await; a blank sku is replaced
\* by a generated one
PostSellerInventory(s, body) ==
    LET blankSku == StringTrim(body.sku) = << >>
        name == StringTrim(body.name)
        stock == NumberOr(body.stock, 0)
        item == [sku |-> IF blankSku THEN <<"sku", nextUuid>> ELSE StringTrim(body.sku),
                 name |-> name, stock |-> stock, daysOnHand |-> NumberOr(body.daysOnHand, 0),
                 margin |-> NumberOr(body.margin, 20), spoilageRisk |-> NoNumber]
        r == [Idle EXCEPT !.op = "addSeller", !.pc = "getProfile", !.role = "seller",
                          !.userId = body.userId, !.arg = item, !.started = today,
                          !.via = "sellerInventory", !.http = JsonBody(body),
                          !.before = Stores]
    IN  /\ reqs[s].pc = "idle"
        /\ blankSku => nextUuid <= MaxUuid
        /\ nextUuid' = IF blankSku THEN nextUuid + 1 ELSE nextUuid
        /\ reqs' = [reqs EXCEPT ![s] =
                IF body.userId = <<"none", 0>> \/ name = << >> \/ stock = NaN \/ stock <= 0
                THEN Answer(r, 400)
                ELSE r]
        /\ UNCHANGED <<users, buyers, sellers, today, acked, offersFile, aiClient>>

\* POST /api/buyer/inventory-remove up to its first await
PostInventoryRemove(s, body) ==
    LET r == [Idle EXCEPT !.op = "remove", !.pc = "getProfile", !.role = "buyer",
                          !.userId = body.userId, !.arg = body.inventoryId, !.started = today,
                          !.via = "inventoryRemove", !.http = JsonBody(body),
                          !.before = Stores]
    IN  /\ reqs[s].pc = "idle"
        /\ reqs' = [reqs EXCEPT ![s] =
                IF body.userId = <<"none", 0>> \/ body.inventoryId = <<"none", 0>>
                THEN Answer(r, 400)
                ELSE r]
        /\ UNCHANGED <<users, buyers, sellers, today, nextUuid, acked, offersFile, aiClient>>

\* upsertBuyerProfile is called with a profile
upsertBuyerProfile(s, profile) ==
    /\ reqs[s].pc = "idle"
    /\ reqs' = [reqs EXCEPT ![s] =
            [Idle EXCEPT !.op = "upsert", !.pc = "upsertRead", !.role = "buyer",
                         !.userId = profile.userId, !.prof = profile, !.started = today]]
    /\ UNCHANGED <<users, buyers, sellers, today, nextUuid, acked, offersFile, aiClient>>

\* the profile a store operation upserts, computed when `await getProfile` resumes
UpdatedProfile(r, profile, day, uuid) ==
    CASE r.op = "append" -> AppendedProfile(profile, r.arg, day, uuid)
      [] r.op = "remove" -> RemovedProfile(profile, r.arg, day)
      [] r.op = "addSeller" -> SellerAddedProfile(profile, r.arg, day)
      [] r.op = "aiAdd" -> QuickAddedProfile(profile, r.arg, day)

\* `await getBuyerProfile(userId)` / `await getSellerProfile(userId)` resumes in a
\* store operation: a missing profile throws (ai-add-to-list answers 404)
GetProfile(s) ==
    LET r == reqs[s]
        profile == getProfile(StoreOf(r.role), r.userId)
    IN  /\ r.pc = "getProfile"
        /\ IF profile = NoProfile
           THEN /\ reqs' = [reqs EXCEPT ![s] = Answer(r, IF r.op = "aiAdd" THEN 404 ELSE 500)]
                /\ UNCHANGED nextUuid
           ELSE /\ r.op = "append" => nextUuid <= MaxUuid
                /\ r.op \in {"append", "addSeller"} => Len(profile.inventory) < MaxInventory
                /\ r.op = "aiAdd" =>
                      \A i \in 1..Len(profile.events) :
                          Len(profile.events[i].shoppingList) < MaxShopping
                /\ reqs' = [reqs EXCEPT ![s] =
                        [r EXCEPT !.pc = "upsertRead",
                                  !.prof = UpdatedProfile(r, profile, today, nextUuid)]]
                /\ nextUuid' = IF r.op = "append" THEN nextUuid + 1 ELSE nextUuid
        /\ UNCHANGED <<users, buyers, sellers, today, acked, offersFile, aiClient>>

\* upsertBuyerProfile / upsertSellerProfile: `await readProfiles()` resumes
UpsertRead(s) ==
    LET r == reqs[s]
    IN  /\ r.pc = "upsertRead"
        /\ reqs' = [reqs EXCEPT ![s] =
                [r EXCEPT !.pc = "upsertWrite",
                          !.list = upsertProfile(StoreOf(r.role), r.prof)]]
        /\ UNCHANGED <<users, buyers, sellers, today, nextUuid, acked, offersFile, aiClient>>

\* upsertProfile: `await writeProfiles(profiles)` resumes and the handler returns
UpsertWrite(s) ==
    LET r == reqs[s]
    IN  /\ r.pc = "upsertWrite"
        /\ \E ok \in BOOLEAN :
              IF r.role = "buyer"
              THEN buyers' = writeFile(buyers, r.list, ok) /\ UNCHANGED sellers
              ELSE sellers' = writeFile(sellers, r.list, ok) /\ UNCHANGED buyers
        /\ reqs' = [reqs EXCEPT ![s] =
                IF r.op \in {"signup", "login"} THEN Return(r, AuthSuccess(r.user))
                ELSE IF r.via # "none" THEN [r EXCEPT !.pc = "dashboardProfile", !.list = << >>]
                ELSE Answer(r, 201)]
        /\ UNCHANGED <<users, today, nextUuid, acked, offersFile, aiClient>>

\* the response has been sent: signupRoute's 201 acknowledges the account
Respond(s) ==
    LET r == reqs[s]
    IN  /\ r.pc = "done"
        /\ reqs' = [reqs EXCEPT ![s] = Idle]
        /\ acked' = IF r.op = "signup" /\ r.status = 201 THEN acked \cup {r.user} ELSE acked
        /\ UNCHANGED <<users, buyers, sellers, today, nextUuid, offersFile, aiClient>>

\* a day passes
Tick ==
    /\ today < MaxDay
    /\ today' = today + 1
    /\ UNCHANGED <<users, buyers, sellers, nextUuid, reqs, acked, offersFile, aiClient>>

\* the status an inventory endpoint answers with once its dashboard build has
\* returned: the dashboard (or null) is sent with 201, by inventory-remove with
\* 200; an exception of the build is caught and answered with 500
EndpointStatus(r, dashboard) ==
    IF r.via = "none" THEN r.status
    ELSE IF dashboard.found /\ dashboard.thrown THEN 500
    ELSE IF r.via = "inventoryRemove" THEN 200
    ELSE 201

\* buildBuyerDashboard is called
buildBuyerDashboard(s, userId) ==
    /\ reqs[s].pc = "idle"
    /\ reqs' = [reqs EXCEPT ![s] =
            [Idle EXCEPT !.op = "buyerDashboard", !.pc = "dashboardProfile", !.role = "buyer",
                         !.userId = userId, !.started = today]]
    /\ UNCHANGED <<users, buyers, sellers, today, nextUuid, acked, offersFile, aiClient>>

\* buildSellerDashboard is called
buildSellerDashboard(s, userId) ==
    /\ reqs[s].pc = "idle"
    /\ reqs' = [reqs EXCEPT ![s] =
            [Idle EXCEPT !.op = "sellerDashboard", !.pc = "dashboardProfile", !.role = "seller",
                         !.userId = userId, !.started = today]]
    /\ UNCHANGED <<users, buyers, sellers, today, nextUuid, acked, offersFile, aiClient>>

\* `await getBuyerProfile(userId)` / `await getSellerProfile(userId)` resumes in a
\* dashboard build: null for a missing profile
DashboardProfile(s) ==
    LET r == reqs[s]
        profile == getProfile(StoreOf(r.role), r.userId)
    IN  /\ r.pc = "dashboardProfile"
        /\ reqs' = [reqs EXCEPT ![s] =
                IF profile = NoProfile
                THEN [r EXCEPT !.pc = "done", !.result = NoDashboard,
                               !.status = EndpointStatus(r, NoDashboard)]
                ELSE [r EXCEPT !.pc = "dashboardOffers", !.prof = profile]]
        /\ UNCHANGED <<users, buyers, sellers, today, nextUuid, acked, offersFile, aiClient>>

\* `await listOffersForZip(zip)` resumes
DashboardOffers(s) ==
    LET r == reqs[s]
        zip == IF r.role = "buyer" THEN r.prof.zip ELSE r.prof.store.zip
    IN  /\ r.pc = "dashboardOffers"
        /\ reqs' = [reqs EXCEPT ![s] =
                [r EXCEPT !.pc = IF r.role = "buyer" THEN "narrative" ELSE "sellerAi",
                          !.list = listOffersForZip(offersFile, zip)]]
        /\ UNCHANGED <<users, buyers, sellers, today, nextUuid, acked, offersFile, aiClient>>

\* generateBuyerAiInsights: `await callAiJson(narrativePrompt)` resumes
AiNarrative(s, reply) ==
    LET r == reqs[s]
    IN  /\ r.pc = "narrative"
        /\ reqs' = [reqs EXCEPT ![s] =
                [r EXCEPT !.pc = "meal", !.narrative = callAiJson(aiClient, reply),
                          !.failed = Append(r.failed, callAi(aiClient, reply) = NoText)]]
        /\ UNCHANGED <<users, buyers, sellers, today, nextUuid, acked, offersFile, aiClient>>

\* generateBuyerAiInsights: `await callAiJson(mealPrompt)` resumes
AiMeal(s, reply) ==
    LET r == reqs[s]
    IN  /\ r.pc = "meal"
        /\ reqs' = [reqs EXCEPT ![s] =
                [r EXCEPT !.pc = "nutrition", !.mealData = callAiJson(aiClient, reply),
                          !.failed = Append(r.failed, callAi(aiClient, reply) = NoText)]]
        /\ UNCHANGED <<users, buyers, sellers, today, nextUuid, acked, offersFile, aiClient>>

\* generateBuyerAiInsights: `await callAiJson(nutritionPrompt)` resumes, the
\* insights are assembled and buildBuyerDashboard returns
AiNutrition(s, reply) ==
    LET r == reqs[s]
        nutritionData == callAiJson(aiClient, reply)
        ai == generateBuyerAiInsights(r.prof, r.list, r.narrative, r.mealData, nutritionData)
    IN  /\ r.pc = "nutrition"
        /\ reqs' = [reqs EXCEPT ![s] =
                [r EXCEPT !.pc = "done", !.nutritionData = nutritionData,
                          !.failed = Append(r.failed, callAi(aiClient, reply) = NoText),
                          !.result = Dashboard(r.prof, ai, r.list),
                          !.status = EndpointStatus(r, Dashboard(r.prof, ai, r.list))]]
        /\ UNCHANGED <<users, buyers, sellers, today, nextUuid, acked, offersFile, aiClient>>

\* generateSellerAiInsights: `await callAiJson(prompt)` resumes, the insights are
\* assembled and buildSellerDashboard returns
AiSeller(s, reply) ==
    LET r == reqs[s]
        parsed == callAiJson(aiClient, reply)
        ai == generateSellerAiInsights(r.prof, r.list, parsed)
    IN  /\ r.pc = "sellerAi"
        /\ reqs' = [reqs EXCEPT ![s] =
                [r EXCEPT !.pc = "done", !.parsed = parsed,
                          !.failed = Append(r.failed, callAi(aiClient, reply) = NoText),
                          !.result = Dashboard(r.prof, ai, r.list),
                          !.status = EndpointStatus(r, Dashboard(r.prof, ai, r.list))]]
        /\ UNCHANGED <<users, buyers, sellers, today, nextUuid, acked, offersFile, aiClient>>

-----------------------------------------------------------------------------
(* Specifications *)

\* the data files hold no account and no profile
Init ==
    /\ users = << >>
    /\ buyers = << >>
    /\ sellers = << >>
    /\ today = 0
    /\ nextUuid = 1
    /\ offersFile = << >>
    /\ aiClient = FALSE
    /\ reqs = [s \in Slots |-> Idle]
    /\ acked = {}

\* signup and login requests, served one at a time
Next ==
    \/ AllIdle /\ \E request \in SignupRequests : PostSignup(1, request)
    \/ AllIdle /\ \E request \in LoginRequests : PostLogin(1, request)
    \/ FindUser(1)
    \/ CreateRead(1)
    \/ CreateWrite(1)
    \/ EnsureGet(1)
    \/ UpsertRead(1)
    \/ UpsertWrite(1)
    \/ Respond(1)
    \/ Tick

Spec == Init /\ [][Next]_vars

\* signup requests whose steps interleave
RacePayloads ==
    [email : {<<"a", "@", "x">>, <<" ", "A", "@", "x">>}, password : {<<"p">>},
     role : {"buyer"}, displayName : {Undefined}]

NextRace ==
    \E s \in Slots :
        \/ \E p \in RacePayloads : registerUser(s, p)
        \/ FindUser(s)
        \/ CreateRead(s)
        \/ CreateWrite(s)
        \/ EnsureGet(s)
        \/ UpsertRead(s)
        \/ UpsertWrite(s)
        \/ Respond(s)

SpecRace == Init /\ [][NextRace]_vars

\* the state after two buyers and a seller have signed up on day 0
BuyerId == UserId("buyer", 0)
SellerId == UserId("seller", 0)
UnknownId == UserId("buyer", 9)
OtherId == UserId("buyer", 8)

InitInventory ==
    /\ users = <<NewUser(<<"o", "@", "x">>, <<"p">>, "buyer", Undefined, 8),
                 NewUser(<<"a", "@", "x">>, <<"p">>, "buyer", Undefined, 0),
                 NewUser(<<"b", "@", "x">>, <<"p">>, "seller", Undefined, 0)>>
    /\ buyers = <<BuyerScaffold(OtherId, <<"o">>, 0), BuyerScaffold(BuyerId, <<"a">>, 0)>>
    /\ sellers = <<SellerScaffold(SellerId, <<"b">>, 0)>>
    /\ today = 0
    /\ nextUuid = 1
    /\ offersFile = << >>
    /\ aiClient = FALSE
    /\ reqs = [s \in Slots |-> Idle]
    /\ acked = {}

BuyerInputs ==
    [userId : {BuyerId, UnknownId}, name : {<<"k">>}, quantity : {5, 10},
     unit : {<<"u">>}, category : {<<"c">>}, expirationDate : {NoNumber, 1, 4, 45}]

SellerItems ==
    [sku : {<<"s">>}, name : {<<"m">>}, stock : {3}, daysOnHand : {5, 10, 15},
     margin : {20}, spoilageRisk : {NoNumber, 50}]

QuickBodies ==
    [userId : {BuyerId, UnknownId, <<"none", 0>>}, item : {<<"k", " ">>, <<" ">>},
     quantity : {NoNumber, 2}, unit : {Undefined, <<"u">>}]

\* the quick items that leave quantity and unit to their defaults
PlainQuickBodies == {body \in QuickBodies : body.quantity = NoNumber /\ body.unit = Undefined}

InventoryIds == {<<"inv", n>> : n \in 1..MaxUuid}

\* inventory requests, served one at a time, while days pass
NextInventory ==
    \/ AllIdle /\ \E input \in BuyerInputs : appendBuyerInventoryItem(1, input)
    \/ AllIdle /\ \E u \in {BuyerId, UnknownId}, id \in InventoryIds :
            removeBuyerInventoryItem(1, u, id)
    \/ AllIdle /\ \E item \in SellerItems : addSellerInventoryEntry(1, SellerId, item)
    \/ AllIdle /\ \E body \in PlainQuickBodies : aiAddToList(1, body)
    \/ GetProfile(1)
    \/ UpsertRead(1)
    \/ UpsertWrite(1)
    \/ Respond(1)
    \/ Tick

SpecInventory == InitInventory /\ [][NextInventory]_vars

\* profiles, offers and replies for the dashboard builds
Kale == [name |-> <<"Kale">>, quantity |-> 10, unit |-> <<"u">>, category |-> <<"Produce">>,
         expirationDate |-> 2]
Rice == [name |-> <<"rice">>, quantity |-> 10, unit |-> <<"u">>, category |-> <<"Pantry">>,
         expirationDate |-> NoNumber]
Oil == [name |-> <<"k">>, quantity |-> 5, unit |-> <<"u">>, category |-> <<"Pantry">>,
        expirationDate |-> NoNumber]

EmptyBuyer == BuyerScaffold(BuyerId, <<"a">>, 0)
StockedBuyer ==
    [EmptyBuyer EXCEPT !.inventory = <<NewItem(Kale, 0, 1), NewItem(Rice, 0, 2)>>]
BusyBuyer ==
    [QuickAddedProfile(EmptyBuyer, [item |-> <<"k">>, quantity |-> 2, unit |-> <<"u">>], 0)
        EXCEPT !.inventory = <<NewItem(Oil, 0, 1)>>, !.purchases = <<[total |-> 100]>>]
AiBuyerProfiles == {EmptyBuyer, StockedBuyer, BusyBuyer}

Shelf(name, daysOnHand) ==
    [sku |-> <<"s">>, name |-> name, stock |-> 3, daysOnHand |-> daysOnHand, margin |-> 20,
     spoilageRisk |-> NoNumber]

EmptySeller == SellerScaffold(SellerId, <<"b">>, 0)
StockedSeller ==
    [EmptySeller EXCEPT
        !.inventory = <<NewEntry(Shelf(<<"k">>, 15)), NewEntry(Shelf(<<"rice">>, 5))>>,
        !.demandSignals = <<[zip |-> "07030", expectedLift |-> 25,
                             focusItems |-> << <<"kale">> >>, startDate |-> <<"d">>]>>]
AiSellerProfiles == {EmptySeller, StockedSeller}

Offer(zip, storeName, discountPercent, items, type) ==
    [id |-> <<"o">>, zip |-> zip, storeName |-> storeName, category |-> <<"c">>,
     description |-> <<"d">>, discountPercent |-> discountPercent, validThrough |-> <<"v">>,
     items |-> items, type |-> type]

Fresh == Offer("07030", <<"Fresh">>, 20, << <<"kale">> >>, "bundle")
Acme == Offer("07030", <<"Acme">>, 10, << >>, "markdown")
Uptown == Offer("10001", <<"Uptown">>, 20, << <<"kale">> >>, "bundle")
OfferFiles == {<< >>, <<Uptown>>, <<Fresh, Uptown>>, <<Fresh, Acme>>}

GoodInsight ==
    JObj(<<KV("keyword", JStr(<<" ", "k">>)), KV("mood", JStr(<<"GREEN">>)),
           KV("detail", JStr(<<"k", " ">>))>>)
BlankInsight == JObj(<<KV("keyword", JStr(<<" ">>)), KV("detail", JStr(<<"k">>))>>)

\* a reply that answers every prompt
RichReply ==
    JObj(<<KV("heroSummary", JStr(<<" ", "k">>)),
           KV("kpiCallouts", JArr(<<JNull, JObj(<<KV("detail", JStr(<<"k">>))>>)>>)),
           KV("recommendations", JArr(<<GoodInsight, BlankInsight, JNum(5)>>)),
           KV("pantryNutrition",
              JObj(<<KV("macroBalance", JStr(<<"k">>)),
                     KV("missingNutrients", JArr(<<JStr(<<"k">>), JNull>>)),
                     KV("overallMood", JStr(<<"red">>))>>)),
           KV("mealPlan",
              JArr(<<JObj(<<KV("day", JStr(<<"k">>)), KV("meals", JArr(<<GoodInsight>>))>>),
                     JNull>>)),
           KV("dietSchedule",
              JArr(<<JObj(<<KV("day", JStr(<<"k">>)), KV("focus", GoodInsight)>>)>>)),
           KV("summaryText", JStr(<<"k">>)),
           KV("categories", JArr(<<JObj(<<KV("id", JStr(<<"k">>)), KV("score", JNum(80))>>),
                                   JObj(<<KV("score", JStr(<<"k">>))>>)>>)),
           KV("potentialGaps", JArr(<<JStr(<<"k">>), JNull>>)),
           KV("recommendedAdditions", JArr(<<JObj(<<KV("item", JStr(<<"k">>))>>), JNum(5)>>)),
           KV("summary", JArr(<<GoodInsight>>)),
           KV("recommendedActions", JArr(<<BlankInsight, JNull>>)),
           KV("bundleIdeas", JNum(5))>>)

JsonValues ==
    { JNull, JNum(5), JStr(<<"k">>), JArr(<<JNull>>), JObj(<< >>), RichReply,
      JObj(<<KV("categories", JArr(<<JNull>>))>>),
      JObj(<<KV("recommendedAdditions", JArr(<<JNull>>))>>),
      JObj(<<KV("categories", JArr(<< >>)), KV("potentialGaps", JArr(<< >>))>>),
      JObj(<<KV("pantryNutrition", JObj(<<KV("macroBalance", JStr(<<" ">>))>>))>>) }

Replies ==
    {Reply("throws", NoText), Reply("notext", NoText)}
    \cup {Reply("text", Text("json", v)) : v \in JsonValues}
    \cup {Reply("text", Text(form, RichReply)) : form \in {"fenced", "trailing-comma", "truncated"}}
    \cup {Reply("text", Text("prose", JNull))}

\* two accounts with their profiles, an offers file, and a client or none
InitAi ==
    /\ users = <<NewUser(<<"a", "@", "x">>, <<"p">>, "buyer", Undefined, 0),
                 NewUser(<<"b", "@", "x">>, <<"p">>, "seller", Undefined, 0)>>
    /\ buyers \in {<<p>> : p \in AiBuyerProfiles}
    /\ sellers \in {<<p>> : p \in AiSellerProfiles}
    /\ offersFile \in OfferFiles
    /\ aiClient \in BOOLEAN
    /\ today = 0
    /\ nextUuid = 1
    /\ reqs = [s \in Slots |-> Idle]
    /\ acked = {}

\* dashboard builds, one at a time
NextAi ==
    \/ AllIdle /\ \E u \in {BuyerId, UnknownId} : buildBuyerDashboard(1, u)
    \/ AllIdle /\ buildSellerDashboard(1, SellerId)
    \/ DashboardProfile(1)
    \/ DashboardOffers(1)
    \/ \E reply \in Replies : AiNarrative(1, reply)
    \/ \E reply \in Replies : AiMeal(1, reply)
    \/ \E reply \in Replies : AiNutrition(1, reply)
    \/ \E reply \in Replies : AiSeller(1, reply)
    \/ Respond(1)

SpecAi == InitAi /\ [][NextAi]_vars

\* callAiJson(prompt) is called: `await callAi(prompt)` suspends it
CallAiJson(s) ==
    /\ reqs[s].pc = "idle"
    /\ reqs' = [reqs EXCEPT ![s] = [Idle EXCEPT !.op = "callAiJson", !.pc = "callAi"]]
    /\ UNCHANGED <<users, buyers, sellers, today, nextUuid, acked, offersFile, aiClient>>

\* callAiJson: `await callAi(prompt)` resumes, the reply is extracted, parsed and
\* repaired, and the value is returned
AiJson(s, reply) ==
    LET r == reqs[s]
    IN  /\ r.op = "callAiJson" /\ r.pc = "callAi"
        /\ reqs' = [reqs EXCEPT ![s] =
                [r EXCEPT !.pc = "done", !.reply = reply, !.parsed = callAiJson(aiClient, reply)]]
        /\ UNCHANGED <<users, buyers, sellers, today, nextUuid, acked, offersFile, aiClient>>

\* the fragments replies are put together from
Quote == "\""

Pieces ==
    { <<"{", Quote, "k", Quote, ":">>, <<"{">>, <<"}">>, <<"[">>, <<"]">>, <<",">>, <<"5">>,
      <<Quote>>, <<"k">>, <<":">>, <<"/", "/">>, <<"\n">> }

MaxPieces == 3

\* what a reply puts around its JSON: nothing, a code fence, or prose
Wraps == {"none", "fence", "prose"}

Wrap(wrap, text) ==
    CASE wrap = "fence" -> <<Fence, "json", "\n">> \o text \o <<"\n", Fence>>
      [] wrap = "prose" -> <<"k", " ">> \o text \o <<" ", "k", "\n">>
      [] OTHER -> text

\* replies that are longer than MaxPieces fragments: trailing commas and an
\* unquoted key, a comment, a reply cut short, strings that hold what the
\* sanitizer removes, an escaped quote, a repeated key, nested values
PickedTexts ==
    { <<"{", Quote, "k", Quote, ":", "[", "5", ",", "]", ",", "}">>,
      <<"{", "k", ":", "5", ",", ",", Quote, "k", "k", Quote, ":", "null", "}">>,
      <<"{", Quote, "k", Quote, ":", "5", "/", "/", "k", "\n", "}">>,
      <<"{", Quote, "k", Quote, ":", "[", "5", ",", Quote, "k">>,
      <<"{", Quote, "k", Quote, ":", "[", "5", "]", ",", Quote, "k", "k", Quote, ":", Quote, "k">>,
      <<"{", Quote, "k", Quote, ":", Quote, ",", "}", Quote, "}">>,
      <<"[", Quote, "/", "/", Quote, ",", Quote, "k", ":", Quote, "]">>,
      <<"[", Quote, "\\", Quote, "]", Quote, "]">>,
      <<"{", Quote, "k", Quote, ":", "5", ",", Quote, "k", Quote, ":", "null", "}">>,
      <<"[", "{", Quote, "k", Quote, ":", "5", "}", ",", "5", "5", "]">>,
      <<Fence, "\n", "[", "5", "]", Fence, " ", "{", "}">>,
      <<Fence, Fence, "[", "5", "]">>,
      <<" ", "\n">> }

RawTexts ==
    {Wrap(wrap, Flatten(pieces)) :
        wrap \in Wraps, pieces \in UNION {[1..m -> Pieces] : m \in 0..MaxPieces}}
    \cup PickedTexts

RawReplies ==
    {Reply("throws", NoText), Reply("notext", NoText)}
    \cup {Reply("text", Text("raw", JStr(text))) : text \in RawTexts}

\* a client or none, and nothing stored
InitJson ==
    /\ users = << >>
    /\ buyers = << >>
    /\ sellers = << >>
    /\ offersFile = << >>
    /\ aiClient \in BOOLEAN
    /\ today = 0
    /\ nextUuid = 1
    /\ reqs = [s \in Slots |-> Idle]
    /\ acked = {}

\* calls of callAiJson, one at a time
NextJson ==
    \/ AllIdle /\ CallAiJson(1)
    \/ \E reply \in RawReplies : AiJson(1, reply)
    \/ Respond(1)

SpecJson == InitJson /\ [][NextJson]_vars

\* parseInsightArray(value) is applied to the value the request holds
ParseInsightArray(s) ==
    LET r == reqs[s]
    IN  /\ r.op = "parseInsightArray" /\ r.pc = "call"
        /\ reqs' = [reqs EXCEPT ![s] =
                [r EXCEPT !.pc = "done", !.list = parseInsightArray(r.parsed)]]
        /\ UNCHANGED <<users, buyers, sellers, today, nextUuid, acked, offersFile, aiClient>>

\* what a reply may give for keyword, detail and mood: nothing, a value that is
\* no string, a blank string, a string to trim, a mood in capitals and a mood
\* that is none of the three
InsightKeywords == {JUndefined, JStr(<<" ">>), JStr(<<" ", "k", "a", " ">>)}
InsightDetails == {JUndefined, JNum(5), JStr(<< >>), JStr(<<"a", " ", "k", "\n">>)}
InsightMoods == {JUndefined, JNum(5), JStr(<<"GREEN">>), JStr(<<"red">>), JStr(<<" ", "green">>)}

\* an object of the members that are given
InsightObject(keyword, detail, mood) ==
    LET Member(key, v) == IF v = JUndefined THEN << >> ELSE <<KV(key, v)>>
    IN  JObj(Member("keyword", keyword) \o Member("mood", mood) \o Member("detail", detail))

InsightEntries ==
    {JNull, JNum(5), JStr(<<"k">>), JArr(<< >>)}
    \cup {InsightObject(k, d, m) : k \in InsightKeywords, d \in InsightDetails, m \in InsightMoods}

MaxEntries == 2

InsightValues ==
    {JNull, JUndefined, JNum(5), JStr(<<"k">>), GoodInsight}
    \cup {JArr(a) : a \in UNION {[1..m -> InsightEntries] : m \in 0..MaxEntries}}

\* a call of parseInsightArray on one of the values
InitInsights ==
    /\ users = << >>
    /\ buyers = << >>
    /\ sellers = << >>
    /\ offersFile = << >>
    /\ aiClient = FALSE
    /\ today = 0
    /\ nextUuid = 1
    /\ reqs \in {[s \in Slots |->
                    IF s = 1 THEN [Idle EXCEPT !.op = "parseInsightArray", !.pc = "call",
                                               !.parsed = value]
                    ELSE Idle] : value \in InsightValues}
    /\ acked = {}

NextInsights ==
    \/ ParseInsightArray(1)
    \/ Respond(1)

SpecInsights == InitInsights /\ [][NextInsights]_vars

\* events a buyer has planned
PlannedEvent(n, status, shoppingList) ==
    [id |-> <<"event", n>>, name |-> <<"Dinner">>, date |-> 1, status |-> status,
     shoppingList |-> shoppingList]

Bread == [name |-> <<"bread">>, quantity |-> 1, unit |-> <<"each">>, status |-> "covered"]

EventLists ==
    { << >>,
      <<PlannedEvent(1, "on-track", <<Bread>>)>>,
      <<PlannedEvent(1, "on-track", << >>), PlannedEvent(2, "draft", <<Bread>>),
        PlannedEvent(3, "needs-shopping", << >>)>> }

\* a buyer with planned events or none, and another buyer
InitQuick ==
    /\ users = <<NewUser(<<"o", "@", "x">>, <<"p">>, "buyer", Undefined, 8),
                 NewUser(<<"a", "@", "x">>, <<"p">>, "buyer", Undefined, 0)>>
    /\ buyers \in {<<[BuyerScaffold(OtherId, <<"o">>, 0) EXCEPT
                          !.events = <<PlannedEvent(1, "draft", << >>)>>],
                      [BuyerScaffold(BuyerId, <<"a">>, 0) EXCEPT !.events = events]>> :
                    events \in EventLists}
    /\ sellers = << >>
    /\ today = 0
    /\ nextUuid = 1
    /\ offersFile = << >>
    /\ aiClient = FALSE
    /\ reqs = [s \in Slots |-> Idle]
    /\ acked = {}

\* quick items, added one request at a time, while days pass
NextQuick ==
    \/ AllIdle /\ \E body \in QuickBodies : aiAddToList(1, body)
    \/ GetProfile(1)
    \/ UpsertRead(1)
    \/ UpsertWrite(1)
    \/ Respond(1)
    \/ Tick

SpecQuick == InitQuick /\ [][NextQuick]_vars

\* store operations on the same profiles whose steps interleave: logins that
\* ensure a profile, upserts, appends and removals
InitStoreRace ==
    /\ users = <<NewUser(<<"o", "@", "x">>, <<"p">>, "buyer", Undefined, 8),
                 NewUser(<<"a", "@", "x">>, <<"p">>, "buyer", Undefined, 0),
                 NewUser(<<"b", "@", "x">>, <<"p">>, "seller", Undefined, 0)>>
    /\ buyers \in {<<BuyerScaffold(OtherId, <<"o">>, 0)>>,
                    <<BuyerScaffold(OtherId, <<"o">>, 0), BuyerScaffold(BuyerId, <<"a">>, 0)>>}
    /\ sellers = << >>
    /\ today = 0
    /\ nextUuid = 1
    /\ offersFile = << >>
    /\ aiClient = FALSE
    /\ reqs = [s \in Slots |-> Idle]
    /\ acked = {}

RaceLogins ==
    {[email |-> <<"a", "@", "x">>, password |-> <<"p">>, role |-> "buyer"],
     [email |-> <<"b", "@", "x">>, password |-> <<"p">>, role |-> "seller"]}

RaceInputs ==
    [userId : {BuyerId}, name : {<<"k">>}, quantity : {10}, unit : {<<"u">>},
     category : {<<"c">>}, expirationDate : {NoNumber}]

RaceItems ==
    [sku : {<<"s">>}, name : {<<"m">>}, stock : {3}, daysOnHand : {5}, margin : {20},
     spoilageRisk : {NoNumber}]

RaceProfiles == {BuyerScaffold(BuyerId, <<"n">>, 0), BuyerScaffold(UnknownId, <<"u">>, 0)}

NextStoreRace ==
    \E s \in Slots :
        \/ \E p \in RaceLogins : authenticateUser(s, p)
        \/ \E profile \in RaceProfiles : upsertBuyerProfile(s, profile)
        \/ \E input \in RaceInputs : appendBuyerInventoryItem(s, input)
        \/ \E id \in InventoryIds : removeBuyerInventoryItem(s, BuyerId, id)
        \/ \E item \in RaceItems : addSellerInventoryEntry(s, SellerId, item)
        \/ FindUser(s)
        \/ EnsureGet(s)
        \/ GetProfile(s)
        \/ UpsertRead(s)
        \/ UpsertWrite(s)
        \/ Respond(s)

SpecStoreRace == InitStoreRace /\ [][NextStoreRace]_vars

\* the bodies posted to the inventory endpoints
BuyerBodies ==
    [userId : {BuyerId, UnknownId, <<"none", 0>>}, name : {<<"k", " ">>, <<" ">>},
     quantity : {NoNumber, NaN, 10}, unit : {<<"u">>, Undefined}, category : {Undefined},
     expirationDate : {NoNumber, 1}]

SellerBodies ==
    [userId : {SellerId, UnknownId, <<"none", 0>>}, sku : {<<"s">>, Undefined},
     name : {<<"m">>, Undefined}, stock : {NoNumber, NaN, 3}, daysOnHand : {NoNumber, 15},
     margin : {NoNumber}]

RemoveBodies ==
    [userId : {BuyerId, UnknownId, <<"none", 0>>},
     inventoryId : InventoryIds \cup {<<"none", 0>>}]

\* the replies the LLM gives while an endpoint builds its dashboard
EndpointReplies == {Reply("throws", NoText), Reply("text", Text("json", JObj(<< >>)))}

\* a buyer and a seller have signed up; there are offers and a client
InitEndpoint ==
    /\ users = <<NewUser(<<"a", "@", "x">>, <<"p">>, "buyer", Undefined, 0),
                 NewUser(<<"b", "@", "x">>, <<"p">>, "seller", Undefined, 0)>>
    /\ buyers = <<BuyerScaffold(BuyerId, <<"a">>, 0)>>
    /\ sellers = <<SellerScaffold(SellerId, <<"b">>, 0)>>
    /\ today = 0
    /\ nextUuid = 1
    /\ offersFile = <<Fresh, Uptown>>
    /\ aiClient = TRUE
    /\ reqs = [s \in Slots |-> Idle]
    /\ acked = {}

\* requests to the inventory endpoints, served one at a time, while days pass
NextEndpoint ==
    \/ AllIdle /\ \E body \in BuyerBodies : PostBuyerInventory(1, body)
    \/ AllIdle /\ \E body \in SellerBodies : PostSellerInventory(1, body)
    \/ AllIdle /\ \E body \in RemoveBodies : PostInventoryRemove(1, body)
    \/ GetProfile(1)
    \/ UpsertRead(1)
    \/ UpsertWrite(1)
    \/ DashboardProfile(1)
    \/ DashboardOffers(1)
    \/ \E reply \in EndpointReplies : AiNarrative(1, reply)
    \/ \E reply \in EndpointReplies : AiMeal(1, reply)
    \/ \E reply \in EndpointReplies : AiNutrition(1, reply)
    \/ \E reply \in EndpointReplies : AiSeller(1, reply)
    \/ Respond(1)
    \/ Tick

SpecEndpoint == InitEndpoint /\ [][NextEndpoint]_vars

-----------------------------------------------------------------------------
(* Accounts and profiles *)

\* C1: in every state, also while signups interleave, no two stored users have
\* e-mail addresses that are equal when case is ignored
C1_UsersUniqueByEmail ==
    \A i, j \in 1..Len(users) :
        i # j => ToLowerCase(users[i].email) # ToLowerCase(users[j].email)

\* C2: when authenticateUser or registerUser returns ok for a user, the store of
\* the user's role holds a profile with that user's id, and no step of either
\* handler changes a profile that is already stored
C2_OkImpliesProfile ==
    [][ /\ \A s \in Slots :
              reqs'[s].pc = "done" /\ reqs'[s].op \in {"signup", "login"} /\ reqs'[s].result.ok
                  => getProfile(IF reqs'[s].result.user.role = "buyer" THEN buyers' ELSE sellers',
                                reqs'[s].result.user.id) # NoProfile
        /\ \A i \in 1..Len(buyers) : i <= Len(buyers') /\ buyers'[i] = buyers[i]
        /\ \A i \in 1..Len(sellers) : i <= Len(sellers') /\ sellers'[i] = sellers[i] ]_vars

\* C3: authenticateUser returns ok only if the store holds a record whose e-mail
\* equals the request's ignoring case, whose role equals the request's and whose
\* password is exactly the request's; the returned id, displayName and role are
\* that record's
C3_LoginOnlyOnMatch ==
    \A s \in Slots :
        LET r == reqs[s]
        IN  r.op = "login" /\ r.pc = "done" /\ r.result.ok =>
                \E i \in 1..Len(users) :
                    /\ ToLowerCase(users[i].email) = ToLowerCase(r.email)
                    /\ users[i].role = r.role
                    /\ users[i].password = r.password
                    /\ r.result.user.id = users[i].id
                    /\ r.result.user.displayName = users[i].displayName
                    /\ r.result.user.role = users[i].role

\* a login has succeeded with an e-mail spelled differently from the stored one
C3_Witness ==
    \E s \in Slots :
        /\ reqs[s].op = "login" /\ reqs[s].pc = "done" /\ reqs[s].result.ok
        /\ reqs[s].status = 200
        /\ \E i \in 1..Len(users) :
              users[i].id = reqs[s].result.user.id /\ users[i].email # reqs[s].email

\* C4: once signupRoute has answered 201 for an account, findUserByEmail returns
\* that account's record in every later state
C4_AcknowledgedAccountFound ==
    \A u \in acked : findUserByEmail(users, u.email) = u

-----------------------------------------------------------------------------
(* Inventory *)

\* C5: whenever a store operation changes a stored profile, the profile it writes
\* has lastUpdated set to a day on which the operation ran
C5_LastUpdatedRefreshed ==
    [][ \A role \in Roles :
          LET old == StoreOf(role)
              new == IF role = "buyer" THEN buyers' ELSE sellers'
          IN  \A i \in 1..Len(new) :
                  (i > Len(old) \/ new[i] # old[i]) =>
                      \E s \in Slots :
                          /\ reqs[s].pc = "upsertWrite"
                          /\ reqs[s].op \in {"append", "remove", "addSeller", "aiAdd"}
                          /\ new[i].userId = reqs[s].userId
                          /\ new[i].lastUpdated \in reqs[s].started..today ]_vars

\* each of the four operations has written a profile on a later day than the
\* one the profile was created on
C5_Witness ==
    /\ today > 0
    /\ \E i \in 1..Len(buyers) :
          /\ buyers[i].lastUpdated = today
          /\ buyers[i].inventory # << >>
          /\ buyers[i].events # << >>
    /\ \E i \in 1..Len(sellers) :
          sellers[i].lastUpdated = today /\ sellers[i].inventory # << >>

\* C6: the status stored with every buyer inventory item is the status derived
\* from its quantity and the days left until its expiration date, also after days
\* have passed
C6_StatusIsDerived ==
    \A i \in 1..Len(buyers) :
        \A k \in 1..Len(buyers[i].inventory) :
            LET it == buyers[i].inventory[k]
            IN  it.status = deriveStatus(DaysLeft(it.expirationDate, today), it.quantity)

-----------------------------------------------------------------------------
(* Insights and dashboards *)

\* a dashboard build that has returned a dashboard
Built(r, op) == r.op = op /\ r.pc = "done" /\ r.result.found

\* every LLM call of the build returned null from callAi
AllCallsFailed(r) == \A i \in 1..Len(r.failed) : r.failed[i]

\* C7: when every LLM call of a build fails (no client, the request throws, no
\* text), the buyer insights and the seller insights equal the heuristic
\* fallback computed from the profile and the offers, field by field
C7_FailedCallsGiveFallback ==
    \A s \in Slots :
        LET r == reqs[s]
            ai == r.result.ai
            buyer == fallbackBuyerInsights(r.prof, r.list)
            seller == fallbackSellerInsights(r.prof, r.list)
        IN  /\ Built(r, "buyerDashboard") /\ AllCallsFailed(r) =>
                  /\ ai.heroSummary = buyer.heroSummary
                  /\ ai.overviewCommentary = buyer.overviewCommentary
                  /\ ai.kpiCallouts = buyer.kpiCallouts
                  /\ ai.recommendations = buyer.recommendations
                  /\ ai.inventoryAnnotations = buyer.inventoryAnnotations
                  /\ ai.inventorySuggestions = buyer.inventorySuggestions
                  /\ ai.pantryNutrition = buyer.pantryNutrition
                  /\ ai.mealPlan = buyer.mealPlan
                  /\ ai.dietSchedule = buyer.dietSchedule
                  /\ ai.dealHighlights = buyer.dealHighlights
            /\ Built(r, "sellerDashboard") /\ AllCallsFailed(r) =>
                  /\ ai.summary = seller.summary
                  /\ ai.recommendedActions = seller.recommendedActions
                  /\ ai.bundleIdeas = seller.bundleIdeas
                  /\ ai.restockAlerts = seller.restockAlerts

\* a buyer with a stocked pantry got the fallback after three calls failed
\* although a client is configured
C7_Witness ==
    \E s \in Slots :
        /\ Built(reqs[s], "buyerDashboard")
        /\ aiClient
        /\ reqs[s].failed = <<TRUE, TRUE, TRUE>>
        /\ reqs[s].prof.inventory # << >>
        /\ reqs[s].result.ai.pantryNutrition =
               fallbackBuyerInsights(reqs[s].prof, reqs[s].list).pantryNutrition

\* a nutrition reply with no summaryText string and no entry in categories,
\* potentialGaps and recommendedAdditions
UnusableNutrition(v) ==
    LET NoEntries(key) == ~IsArray(Get(v, key)) \/ Get(v, key).a = << >>
    IN  /\ ~IsString(Get(v, "summaryText"))
        /\ NoEntries("categories")
        /\ NoEntries("potentialGaps")
        /\ NoEntries("recommendedAdditions")

\* C8: when the nutrition reply parses as JSON but carries no usable data, the
\* pantryNutrition of the buyer insights is the one parsed from the narrative
\* reply or, without one, the fallback's; it never has an empty macroBalance
\* together with empty lists
C8_UnusableNutritionFallsBack ==
    \A s \in Slots :
        LET r == reqs[s]
            parsed == IF Truthy(r.narrative)
                      THEN parsePantryNutrition(Get(r.narrative, "pantryNutrition"))
                      ELSE NoPantry
            got == r.result.ai.pantryNutrition
        IN  Built(r, "buyerDashboard") /\ r.nutritionData # JNull
                /\ UnusableNutrition(r.nutritionData) =>
                    /\ got = IF parsed # NoPantry THEN parsed
                             ELSE fallbackBuyerInsights(r.prof, r.list).pantryNutrition
                    /\ ~(got.macroBalance = << >> /\ got.missingNutrients = << >>
                            /\ got.recommendedAdditions = << >>)

\* C9: whatever the LLM requests do, a dashboard build for a stored profile
\* returns a dashboard and raises no exception
C9_BuildNeverFails ==
    \A s \in Slots :
        LET r == reqs[s]
        IN  r.op \in {"buyerDashboard", "sellerDashboard"} /\ r.pc = "done"
                /\ getProfile(StoreOf(r.role), r.userId) # NoProfile =>
                    r.result.found /\ ~r.result.thrown /\ ~r.result.ai.thrown

\* a nutrition reply whose categories hold a null entry was survived
C9_Witness ==
    \E s \in Slots :
        /\ Built(reqs[s], "buyerDashboard")
        /\ IsArray(Get(reqs[s].nutritionData, "categories"))
        /\ \E i \in 1..Len(Get(reqs[s].nutritionData, "categories").a) :
              Get(reqs[s].nutritionData, "categories").a[i] = JNull
        /\ ~reqs[s].result.thrown

\* the section of the seller insights named key, given the reply and the fallback
SellerSection(parsed, key, fallback) ==
    IF Truthy(parsed) /\ parseInsightArray(Get(parsed, key)) # << >>
    THEN parseInsightArray(Get(parsed, key)) ELSE fallback

\* C10: each of the four sections of the seller insights is non-empty: it is the
\* list parsed from the reply when that holds a valid insight and the fallback
\* section otherwise, and every fallback section holds an insight
C10_SellerSectionsNonEmpty ==
    \A s \in Slots :
        LET r == reqs[s]
            ai == r.result.ai
            fallback == fallbackSellerInsights(r.prof, r.list)
        IN  Built(r, "sellerDashboard") =>
                /\ ai.summary = SellerSection(r.parsed, "summary", fallback.summary)
                /\ ai.recommendedActions =
                       SellerSection(r.parsed, "recommendedActions", fallback.recommendedActions)
                /\ ai.bundleIdeas = SellerSection(r.parsed, "bundleIdeas", fallback.bundleIdeas)
                /\ ai.restockAlerts =
                       SellerSection(r.parsed, "restockAlerts", fallback.restockAlerts)
                /\ \A section \in {ai.summary, ai.recommendedActions, ai.bundleIdeas,
                                   ai.restockAlerts, fallback.summary,
                                   fallback.recommendedActions, fallback.bundleIdeas,
                                   fallback.restockAlerts} : Len(section) > 0

\* with no offer for the zip, a reply gave the summary while its bundleIdeas,
\* which is not a list, was replaced by the fallback's
C10_Witness ==
    \E s \in Slots :
        /\ Built(reqs[s], "sellerDashboard")
        /\ reqs[s].list = << >>
        /\ Truthy(reqs[s].parsed)
        /\ reqs[s].result.ai.summary # fallbackSellerInsights(reqs[s].prof, reqs[s].list).summary
        /\ reqs[s].result.ai.bundleIdeas =
               fallbackSellerInsights(reqs[s].prof, reqs[s].list).bundleIdeas

-----------------------------------------------------------------------------
(* Endpoints and the profile store *)

\* the profile files as the step leaves them
StoreOfNext(role) == IF role = "buyer" THEN buyers' ELSE sellers'

\* C11: when POST /api/buyer/inventory or POST /api/seller/inventory answers 201,
\* the profile inside the returned dashboard has the inventory the user had
\* before the request followed by the newly added item, and the stored profile
\* has that same inventory
C11_EndpointReturnsUpdatedInventory ==
    \A s \in Slots :
        LET r == reqs[s]
            old == getProfile(IF r.role = "buyer" THEN r.before.buyers ELSE r.before.sellers,
                              r.userId).inventory
            shown == r.result.profile.inventory
            stored == getProfile(StoreOf(r.role), r.userId)
        IN  r.via \in {"buyerInventory", "sellerInventory"} /\ r.pc = "done" /\ r.status = 201 =>
                /\ r.result.found
                /\ Len(shown) = Len(old) + 1
                /\ SubSeq(shown, 1, Len(old)) = old
                /\ shown[Len(shown)].name = r.arg.name
                /\ r.role = "buyer" =>
                      /\ shown[Len(shown)].quantity = r.arg.quantity
                      /\ shown[Len(shown)].unit = r.arg.unit
                /\ r.role = "seller" =>
                      /\ shown[Len(shown)].stock = r.arg.stock
                      /\ shown[Len(shown)].sku = r.arg.sku
                /\ stored # NoProfile
                /\ stored.inventory = shown

\* the profile with the fields an inventory operation may change blanked
Framed(profile) == [profile EXCEPT !.inventory = << >>, !.lastUpdated = 0]

\* the step in which the store operation of request r returns its profile
Returns(r, next) == r.pc = "upsertWrite" /\ next.pc # "upsertWrite"

\* the step in which the store operation of request r finds no profile
FindsNoProfile(r, next) ==
    r.pc = "getProfile" /\ next # r /\ getProfile(StoreOf(r.role), r.userId) = NoProfile

\* C12: when appendBuyerInventoryItem returns for user u, u's stored inventory is
\* the previous inventory with exactly one new item at the end, every other
\* field of u's profile except lastUpdated is unchanged and every other stored
\* profile is unchanged; when u has no profile it raises an error and the store
\* is unchanged
C12_AppendChangesNothingElse ==
    [][ \A s \in Slots :
          LET r == reqs[s]
              Mine(p) == p.userId = r.userId
              i == FindIndex(buyers, Mine)
          IN  r.op = "append" =>
                  /\ Returns(r, reqs'[s]) =>
                        /\ i > 0
                        /\ Len(buyers') = Len(buyers)
                        /\ \A j \in 1..Len(buyers) : j # i => buyers'[j] = buyers[j]
                        /\ Len(buyers'[i].inventory) = Len(buyers[i].inventory) + 1
                        /\ SubSeq(buyers'[i].inventory, 1, Len(buyers[i].inventory))
                               = buyers[i].inventory
                        /\ buyers'[i].inventory[Len(buyers'[i].inventory)].name = r.arg.name
                        /\ Framed(buyers'[i]) = Framed(buyers[i])
                        /\ sellers' = sellers
                  /\ FindsNoProfile(r, reqs'[s]) =>
                        /\ reqs'[s].pc = "done" /\ reqs'[s].status = 500
                        /\ buyers' = buyers /\ sellers' = sellers ]_vars

\* C13: when removeBuyerInventoryItem(u, id) returns, u's stored inventory is the
\* previous inventory without the items whose id is id, the remaining items in
\* their order; an id that matches no item leaves the inventory unchanged; when
\* u has no profile it raises an error and the store is unchanged
C13_RemoveRemovesNamedItem ==
    [][ \A s \in Slots :
          LET r == reqs[s]
              Mine(p) == p.userId = r.userId
              i == FindIndex(buyers, Mine)
              Keep(it) == it.id # r.arg
          IN  r.op = "remove" =>
                  /\ Returns(r, reqs'[s]) =>
                        /\ i > 0
                        /\ Len(buyers') = Len(buyers)
                        /\ \A j \in 1..Len(buyers) : j # i => buyers'[j] = buyers[j]
                        /\ buyers'[i].inventory = SelectSeq(buyers[i].inventory, Keep)
                        /\ (\A k \in 1..Len(buyers[i].inventory) : Keep(buyers[i].inventory[k]))
                               => buyers'[i].inventory = buyers[i].inventory
                        /\ Framed(buyers'[i]) = Framed(buyers[i])
                  /\ FindsNoProfile(r, reqs'[s]) =>
                        /\ reqs'[s].pc = "done" /\ reqs'[s].status = 500
                        /\ buyers' = buyers /\ sellers' = sellers ]_vars

\* no two profiles of the list have the same userId
UniqueByUserId(list) ==
    \A i, j \in 1..Len(list) : i # j => list[i].userId # list[j].userId

\* the list an upsert of request r is about to write, against the list it read:
\* the profile of that userId is replaced where it stood, or the profile is
\* added when there was none
ReplacedInPlace(read, written, profile) ==
    IF \E i \in 1..Len(read) : read[i].userId = profile.userId
    THEN /\ Len(written) = Len(read)
         /\ \A i \in 1..Len(read) :
               written[i] = IF read[i].userId = profile.userId THEN profile ELSE read[i]
    ELSE /\ Len(written) = Len(read) + 1
         /\ SubSeq(written, 1, Len(read)) = read
         /\ written[Len(written)] = profile

\* C14: in every state reachable by any interleaving of upsert, ensure, append
\* and remove operations each profile store holds at most one profile per
\* userId, and an upsert replaces the stored profile of that userId in place
\* rather than adding a second one
C14_OneProfilePerUser ==
    /\ [](UniqueByUserId(buyers) /\ UniqueByUserId(sellers))
    /\ [][ \A s \in Slots :
              reqs[s].pc = "upsertRead" /\ reqs'[s].pc = "upsertWrite" =>
                  ReplacedInPlace(StoreOf(reqs[s].role), reqs'[s].list, reqs[s].prof) ]_vars

\* two operations on the same user are both about to write, each a list of its
\* own, while the store already holds a profile of that user
C14_Witness ==
    /\ reqs[1].pc = "upsertWrite" /\ reqs[2].pc = "upsertWrite"
    /\ reqs[1].prof.userId = reqs[2].prof.userId
    /\ reqs[1].list # reqs[2].list
    /\ getProfile(StoreOf(reqs[1].role), reqs[1].prof.userId) # NoProfile

\* the zip a dashboard build lists offers for
DashboardZip(r) == IF r.role = "buyer" THEN r.result.profile.zip ELSE r.result.profile.store.zip

\* list holds exactly the offers of file that are for zip, in the order of file
OffersOfZip(list, file, zip) ==
    LET Here(i) == file[i].zip = zip
        Rank(i) == Cardinality({j \in 1..i : Here(j)})
    IN  /\ Len(list) = Rank(Len(file))
        /\ \A i \in 1..Len(file) : Here(i) => list[Rank(i)] = file[i]

\* C15: the offers of a buyer dashboard are exactly the stored offers whose zip
\* is the profile's zip (the store's zip for a seller dashboard), in stored
\* order, and no step of any operation changes the offers store
C15_OffersZipScopedReadOnly ==
    /\ [](\A s \in Slots :
            LET r == reqs[s]
            IN  r.op \in {"buyerDashboard", "sellerDashboard"} /\ r.pc = "done" /\ r.result.found
                    => OffersOfZip(r.result.offers, offersFile, DashboardZip(r)))
    /\ [][offersFile' = offersFile]_vars

\* a buyer dashboard lists the one offer of its zip out of a file that also
\* holds an offer of another zip
C15_Witness ==
    \E s \in Slots :
        /\ Built(reqs[s], "buyerDashboard")
        /\ offersFile = <<Fresh, Uptown>>
        /\ reqs[s].result.offers = <<Fresh>>

-----------------------------------------------------------------------------
(* Routes *)

\* the step in which the request of slot s gets its response
Responds(s) == reqs[s].pc # "done" /\ reqs'[s].pc = "done"

\* the request has the JSON content type and a body that is valid JSON text
Parseable(request) ==
    Includes(request.contentType, "application/json") /\ request.body = "json"

\* the data files are as they were when request r arrived
StoresUntouched(r) ==
    users' = r.before.users /\ buyers' = r.before.buyers /\ sellers' = r.before.sellers

\* C16: signupRoute answers 400 when the request is not a parseable
\* application/json body or when email, password or role fail validation, 409
\* exactly when (the request being valid) an account with that e-mail exists,
\* and 201 otherwise; on every response other than 201 the user store and the
\* profile stores are as they were
C16_SignupStatusCodes ==
    [][ \A s \in Slots :
          LET n == reqs'[s]
              payload == n.http.value.payload
              invalid == \/ Falsy(OptTrim(payload.email))
                         \/ Falsy(OptTrim(payload.password))
                         \/ payload.role \notin Roles
              exists == findUserByEmail(n.before.users, Trim(payload.email)) # NoUser
          IN  Responds(s) /\ n.op = "signup" =>
                  /\ n.status = IF ~Parseable(n.http) \/ invalid THEN 400
                                ELSE IF exists THEN 409
                                ELSE 201
                  /\ n.status # 201 => StoresUntouched(n) ]_vars

\* C17: loginRoute always answers 400, 401 or 200: 400 if and only if the content
\* type is not application/json or the body is empty or not valid JSON, 401 if
\* and only if the body parsed and authenticateUser failed, and 200 otherwise,
\* with redirectTo /<role>/dashboard?user=<id> of the authenticated user
C17_LoginStatusCodes ==
    [][ \A s \in Slots :
          LET n == reqs'[s]
          IN  Responds(s) /\ n.op = "login" =>
                  /\ n.status \in {400, 401, 200}
                  /\ n.status = 400 <=> ~Parseable(n.http)
                  /\ n.status = 401 <=> Parseable(n.http) /\ ~n.result.ok
                  /\ n.status = 200 =>
                        \E i \in 1..Len(users) :
                            /\ EmailMatches(users[i], n.http.value.payload.email)
                            /\ n.redirectTo =
                                  <<"/", users[i].role, "/dashboard?user=", users[i].id>> ]_vars

\* C18: whether or not the write of a data file fails, createUser and the upsert
\* operations return their record without raising, a signup that created its
\* account is answered 201, and the record just written is what the next
\* lookup finds
C18_WriteFailureKeepsNewState ==
    [][ \A s \in Slots :
          LET r == reqs[s]
              n == reqs'[s]
          IN  /\ r.pc = "createWrite" /\ n # r =>
                    /\ n.pc = "ensureGet" /\ n.user = r.user
                    /\ findUserByEmail(users', r.user.email) = r.user
              /\ r.pc = "upsertWrite" /\ n # r =>
                    /\ n.pc # "done" \/ n.status \in {200, 201}
                    /\ getProfile(StoreOfNext(r.role), r.prof.userId) = r.prof
              /\ Responds(s) /\ r.op = "signup" /\ r.pc = "upsertWrite" => n.status = 201 ]_vars

\* a text field of a body is missing or has nothing but white space
Empty(v) == v = Undefined \/ \A i \in 1..Len(v) : IsSpace(v[i])

\* a numeric field of a body is missing, not a number, or not greater than 0
NotPositive(v) == v \in {NoNumber, NaN} \/ v <= 0

\* the body of an inventory request names no user or lacks a required field
Rejectable(r) ==
    LET body == r.http.value
    IN  \/ body.userId = <<"none", 0>>
        \/ Empty(body.name)
        \/ r.via = "buyerInventory" /\ (Empty(body.unit) \/ NotPositive(body.quantity))
        \/ r.via = "sellerInventory" /\ NotPositive(body.stock)

\* C19: POST /api/buyer/inventory answers 400 when userId, name or unit is empty
\* or quantity is not a number greater than 0 (POST /api/seller/inventory: when
\* userId or name is empty or stock is not a number greater than 0), and 500
\* when the user has no profile; in each of these cases every stored profile
\* is as it was when the request arrived
C19_RejectedInventoryChangesNothing ==
    \A s \in Slots :
        LET r == reqs[s]
            had == getProfile(IF r.role = "buyer" THEN r.before.buyers ELSE r.before.sellers,
                              r.http.value.userId)
        IN  r.via \in {"buyerInventory", "sellerInventory"} /\ r.pc = "done" =>
                /\ r.status = 400 <=> Rejectable(r)
                /\ r.status = 500 <=> ~Rejectable(r) /\ had = NoProfile
                /\ r.status \in {400, 500} =>
                      buyers = r.before.buyers /\ sellers = r.before.sellers

\* after an item was stored on an earlier day, a buyer request without a
\* quantity was answered 400 and left the stored inventory alone
C19_Witness ==
    \E s \in Slots :
        /\ reqs[s].via = "buyerInventory" /\ reqs[s].pc = "done" /\ reqs[s].status = 400
        /\ reqs[s].http.value.quantity = NoNumber
        /\ ~Empty(reqs[s].http.value.name) /\ ~Empty(reqs[s].http.value.unit)
        /\ reqs[s].http.value.userId = BuyerId
        /\ getProfile(buyers, BuyerId).inventory # << >>

-----------------------------------------------------------------------------
(* The reply of the LLM                                                       *)

\* a call of callAiJson that has returned
Parsing(r) == r.op = "callAiJson" /\ r.pc = "done"

\* the value of the first of the texts that parses, null when none does
RECURSIVE FirstParsed(_)
FirstParsed(texts) ==
    IF texts = << >> THEN JNull
    ELSE IF ~ParseJsonText(Head(texts)).thrown THEN ParseJsonText(Head(texts)).value
    ELSE FirstParsed(Tail(texts))

\* the text with a quote for a string left open, then a ] for every bracket
\* and a } for every brace left open
Closed(text) ==
    LET st == Balance(text, [inString |-> FALSE, escaped |-> FALSE,
                             braceDelta |-> 0, bracketDelta |-> 0])
    IN  text \o (IF st.inString THEN <<Quote>> ELSE << >>)
             \o Repeat("]", st.bracketDelta) \o Repeat("}", st.braceDelta)

\* the text up to its last closing bracket or brace, the text when it has none
UpToLastCloser(text) ==
    IF \E i \in 1..Len(text) : text[i] \in {"}", "]"}
    THEN SubSeq(text, 1, CHOOSE i \in 1..Len(text) :
                             /\ text[i] \in {"}", "]"}
                             /\ \A j \in (i + 1)..Len(text) : text[j] \notin {"}", "]"})
    ELSE text

\* the payload extracted from the reply of a call, and the payload sanitized
PayloadOf(r) == ExtractPayload(callAi(aiClient, r.reply).value.s)
SanitizedOf(r) == SanitizeText(PayloadOf(r))

\* C20 as stated: callAiJson returns null when callAi returns null; otherwise
\* the value of the first that parses of the extracted payload, the sanitized
\* payload, and the sanitized payload with its dangling quotes, brackets and
\* braces closed, and null when none of the three parses.
C20_StagesAsStated ==
    \A s \in Slots :
        Parsing(reqs[s]) =>
            reqs[s].parsed =
                IF callAi(aiClient, reqs[s].reply) = NoText THEN JNull
                ELSE FirstParsed(<<PayloadOf(reqs[s]), SanitizedOf(reqs[s]),
                                   Closed(SanitizedOf(reqs[s]))>>)

\* C20, amended: callAiJson returns null when callAi returns null; otherwise the
\* value of the first that parses of the extracted payload, the sanitized
\* payload, and the repaired payload, which is the sanitized payload cut after
\* its last closing bracket or brace, closed, and sanitized once more; null
\* when none of the three parses.  A payload that is valid JSON is returned as
\* it parses.
C20_StagedParseAndRepair ==
    \A s \in Slots :
        Parsing(reqs[s]) =>
            /\ reqs[s].parsed =
                   IF callAi(aiClient, reqs[s].reply) = NoText THEN JNull
                   ELSE FirstParsed(<<PayloadOf(reqs[s]), SanitizedOf(reqs[s]),
                                      SanitizeText(Closed(UpToLastCloser(SanitizedOf(reqs[s]))))>>)
            /\ (/\ callAi(aiClient, reqs[s].reply) # NoText
                /\ ~ParseJsonText(PayloadOf(reqs[s])).thrown)
               => reqs[s].parsed = ParseJsonText(PayloadOf(reqs[s])).value

\* a call returned a value that only the repaired payload parses to: neither
\* the payload, nor the sanitized payload, nor the sanitized payload closed
\* parses
C20_Witness ==
    \E s \in Slots :
        /\ Parsing(reqs[s])
        /\ callAi(aiClient, reqs[s].reply) # NoText
        /\ ParseJsonText(PayloadOf(reqs[s])).thrown
        /\ ParseJsonText(SanitizedOf(reqs[s])).thrown
        /\ ParseJsonText(Closed(SanitizedOf(reqs[s]))).thrown
        /\ reqs[s].parsed # JNull

-----------------------------------------------------------------------------
(* Parsed insights                                                            *)

\* a call of parseInsightArray that has returned
InsightsParsed(r) == r.op = "parseInsightArray" /\ r.pc = "done"

\* the entry is an object that has a keyword string and a detail string, neither
\* of them blank
HasKeywordAndDetail(entry) ==
    /\ entry.t = "object"
    /\ \E i \in 1..Len(entry.o) :
           entry.o[i].k = "keyword" /\ entry.o[i].v.t = "string" /\ Trim(entry.o[i].v.s) # << >>
    /\ \E i \in 1..Len(entry.o) :
           entry.o[i].k = "detail" /\ entry.o[i].v.t = "string" /\ Trim(entry.o[i].v.s) # << >>

\* the mood the entry gives, in lower case, when it is one of the three
GivenMood(entry) ==
    IF \E i \in 1..Len(entry.o), m \in Moods :
           entry.o[i].k = "mood" /\ entry.o[i].v.t = "string"
           /\ ToLowerCase(entry.o[i].v.s) = <<m>>
    THEN CHOOSE m \in Moods : \E i \in 1..Len(entry.o) :
             entry.o[i].k = "mood" /\ entry.o[i].v.t = "string" /\ ToLowerCase(entry.o[i].v.s) = <<m>>
    ELSE "amber"

\* the places of the input array whose entries are kept
KeptPlaces(value) == {i \in 1..Len(value.a) : HasKeywordAndDetail(value.a[i])}

\* C21: parseInsightArray returns a list no longer than the input array, in
\* input order; every insight has a non-empty upper-cased keyword, a non-empty
\* trimmed detail and a mood that is green, amber or red, amber standing for a
\* missing or unrecognised mood; the entries kept are the objects that have a
\* keyword and a detail string; a value that is no array gives the empty list.
C21_InsightsStronglyShaped ==
    \A s \in Slots :
        InsightsParsed(reqs[s]) =>
            LET value == reqs[s].parsed
                out == reqs[s].list
            IN  IF value.t # "array" THEN out = << >>
                ELSE /\ Len(out) <= Len(value.a)
                     /\ Len(out) = Cardinality(KeptPlaces(value))
                     /\ \A j \in 1..Len(out) :
                            /\ out[j].keyword # << >>
                            /\ out[j].keyword = ToUpperCase(out[j].keyword)
                            /\ out[j].detail # << >>
                            /\ out[j].detail = Trim(out[j].detail)
                            /\ out[j].mood \in Moods
                     /\ \A i \in KeptPlaces(value) :
                            LET j == Cardinality({m \in KeptPlaces(value) : m <= i})
                                entry == value.a[i]
                            IN  /\ out[j].keyword = ToUpperCase(Trim(Get(entry, "keyword").s))
                                /\ out[j].detail = Trim(Get(entry, "detail").s)
                                /\ out[j].mood = GivenMood(entry)

\* a call dropped an entry, kept a later one, trimmed and upper-cased it, and
\* gave it amber for a mood that is none of the three
C21_Witness ==
    \E s \in Slots :
        /\ InsightsParsed(reqs[s])
        /\ reqs[s].parsed.t = "array" /\ Len(reqs[s].parsed.a) = 2
        /\ ~HasKeywordAndDetail(reqs[s].parsed.a[1])
        /\ Get(reqs[s].parsed.a[2], "mood") = JStr(<<" ", "green">>)
        /\ reqs[s].list = <<Insight(<<"K", "A">>, "amber", <<"a", " ", "k">>)>>

-----------------------------------------------------------------------------
(* Quick items                                                                *)

\* the step in which ai-add-to-list answers request s with the status
QuickAnswers(s, status) ==
    /\ reqs[s].op = "aiAdd" /\ reqs[s].pc # "done"
    /\ reqs'[s].pc = "done" /\ reqs'[s].status = status

\* an event a quick item is attached to
OpenEvent(e) == e.status = "needs-shopping" \/ e.status = "draft"

\* the events of the profile that ai-add-to-list created
QuickOrders(profile) ==
    {i \in 1..Len(profile.events) : profile.events[i].id[1] = "event-quick"}

\* list is the list before followed by one entry with status 'add'
OneEntryAdded(before, list) ==
    /\ Len(list) = Len(before) + 1
    /\ SubSeq(list, 1, Len(before)) = before
    /\ list[Len(list)].status = "add"

\* the events after are the events before with one entry added to the first
\* open event, or, when none is open, followed by a new Quick Order that holds
\* the one entry
AttachedToOneEvent(before, after) ==
    LET i == FindIndex(before, OpenEvent)
    IN  IF i > 0
        THEN /\ Len(after) = Len(before)
             /\ \A k \in 1..Len(before) : k # i => after[k] = before[k]
             /\ after[i] = [before[i] EXCEPT !.shoppingList = after[i].shoppingList]
             /\ OneEntryAdded(before[i].shoppingList, after[i].shoppingList)
        ELSE /\ Len(after) = Len(before) + 1
             /\ SubSeq(after, 1, Len(before)) = before
             /\ after[Len(after)].name = <<"Quick Order">>
             /\ after[Len(after)].status = "needs-shopping"
             /\ OneEntryAdded(<< >>, after[Len(after)].shoppingList)

\* C22: when ai-add-to-list answers 201, the stored profile of the user has one
\* more shopping-list entry, with status 'add', in its first event that is
\* needs-shopping or draft, or, when it had no such event, in a new Quick Order
\* event with status needs-shopping appended to its events; all other events
\* and all other profiles are unchanged; no profile ever holds more than one
\* event created by the endpoint; a request for a user without profile is
\* answered 404 and changes nothing.
C22_QuickItemAttachedToOneEvent ==
    /\ [](\A i \in 1..Len(buyers) : Cardinality(QuickOrders(buyers[i])) <= 1)
    /\ [][ \A s \in Slots :
              LET r == reqs[s]
                  Mine(p) == p.userId = r.userId
                  i == FindIndex(buyers, Mine)
              IN  /\ QuickAnswers(s, 201) =>
                         /\ i > 0
                         /\ Len(buyers') = Len(buyers)
                         /\ \A k \in 1..Len(buyers) : k # i => buyers'[k] = buyers[k]
                         /\ AttachedToOneEvent(buyers[i].events, buyers'[i].events)
                  /\ (r.op = "aiAdd" /\ i = 0 /\ reqs'[s] # r) =>
                         /\ buyers' = buyers
                         /\ reqs'[s].pc = "done" => reqs'[s].status \in {400, 404}
                  /\ QuickAnswers(s, 404) => i = 0 /\ buyers' = buyers ]_vars

-----------------------------------------------------------------------------
(* Requests whose file reads and writes interleave                            *)

\* the buyer whose profile request r works on
BuyerOf(r) == IF r.op = "login" THEN r.user.id ELSE r.userId

\* request r is an append, a removal, an upsert or a login that ensures the
\* profile of a buyer, and it has returned without an error
BuyerOpReturned(r) ==
    /\ r.pc = "done" /\ r.role = "buyer"
    /\ \/ r.op \in {"append", "remove", "upsert"} /\ r.status = 201
       \/ r.op = "login" /\ r.result.ok

\* the store carries the update of request r: the profile it upserted, and for
\* a login a profile of its user
CarriesUpdateOf(r) ==
    IF r.op = "login" THEN getProfile(buyers, r.user.id) # NoProfile
    ELSE getProfile(buyers, r.userId) = r.prof

\* C23: when two requests on the profiles of different buyers (append, remove,
\* ensure or upsert) have both returned, whatever the order of their file reads
\* and writes, the stored profile of each of the two buyers carries the update
\* of its request.
C23_OtherUsersProfileUndisturbed ==
    \A s, other \in Slots :
        (/\ s # other
         /\ BuyerOpReturned(reqs[s]) /\ BuyerOpReturned(reqs[other])
         /\ BuyerOf(reqs[s]) # BuyerOf(reqs[other]))
        => CarriesUpdateOf(reqs[s]) /\ CarriesUpdateOf(reqs[other])

\* appendBuyerInventoryItem has returned the updated profile to request r
AppendReturned(r) == r.op = "append" /\ r.pc = "done" /\ r.status = 201

\* the item the append of request r added: the last of the inventory it returned
AppendedItem(r) == r.prof.inventory[Len(r.prof.inventory)]

\* C24: when appendBuyerInventoryItem calls on the same buyer have all returned
\* successfully, whatever the order of their read and write steps, the stored
\* inventory of the buyer contains every one of the appended items.
C24_NoAcknowledgedAppendLost ==
    \A s, other \in Slots :
        (/\ s # other
         /\ AppendReturned(reqs[s]) /\ AppendReturned(reqs[other])
         /\ reqs[s].userId = reqs[other].userId)
        => LET stored == getProfile(buyers, reqs[s].userId)
           IN  /\ stored # NoProfile
               /\ \E i \in 1..Len(stored.inventory) : stored.inventory[i] = AppendedItem(reqs[s])
               /\ \E i \in 1..Len(stored.inventory) : stored.inventory[i] = AppendedItem(reqs[other])

-----------------------------------------------------------------------------
(* Signup followed by login with the payload of the signup                    *)

\* the payload a client signs up with and then logs in with: it is kept in
\* slot 2, which serves no request
HeldPayload ==
    [email |-> reqs[2].email, password |-> reqs[2].password, role |-> reqs[2].role,
     displayName |-> reqs[2].displayName]

\* the data files are empty and the client holds a payload
InitRoundTrip ==
    /\ users = << >>
    /\ buyers = << >>
    /\ sellers = << >>
    /\ today = 0
    /\ nextUuid = 1
    /\ offersFile = << >>
    /\ aiClient = FALSE
    /\ acked = {}
    /\ \E p \in SignupPayloads :
           reqs = [s \in Slots |->
                       IF s = 1 THEN Idle
                       ELSE [Idle EXCEPT !.pc = "payload", !.email = p.email,
                                         !.password = p.password, !.role = p.role,
                                         !.displayName = p.displayName]]

\* registerUser and authenticateUser are called with the held payload, one call
\* at a time
NextRoundTrip ==
    \/ registerUser(1, HeldPayload)
    \/ authenticateUser(1, [email |-> HeldPayload.email, password |-> HeldPayload.password,
                            role |-> HeldPayload.role])
    \/ FindUser(1)
    \/ CreateRead(1)
    \/ CreateWrite(1)
    \/ EnsureGet(1)
    \/ UpsertRead(1)
    \/ UpsertWrite(1)
    \/ Respond(1)

SpecRoundTrip == InitRoundTrip /\ [][NextRoundTrip]_vars

\* registerUser has returned ok for the held payload
SignedUp == acked # {}

\* authenticateUser has returned for the held payload
LoginReturned == reqs[1].op = "login" /\ reqs[1].pc = "done"

\* C25: once registerUser has returned ok for a payload, authenticateUser called
\* with the same email, password and role returns ok with the id registerUser
\* returned, also when the email or the password has leading or trailing
\* whitespace.
C25_SignupThenLoginRoundTrips ==
    (SignedUp /\ LoginReturned)
        => /\ reqs[1].result.ok
           /\ \E user \in acked : reqs[1].result.user.id = user.id

-----------------------------------------------------------------------------
(* What a login writes                                                        *)

\* slot s holds a login that loginRoute has passed to authenticateUser and that
\* has returned
LoginDone(s) == reqs[s].op = "login" /\ reqs[s].pc = "done" /\ reqs[s].before # NoStores

\* `after` is `before` with one more profile, the one of `user`, who had none
MissingProfileAdded(before, after, user) ==
    /\ getProfile(before, user.id) = NoProfile
    /\ Len(after) = Len(before) + 1
    /\ \A i \in 1..Len(before) : after[i] = before[i]
    /\ after[Len(after)].userId = user.id
    /\ after[Len(after)].displayName = user.displayName

\* C26: authenticateUser never changes the user store; when it fails the profile
\* stores are as they were when it was called; when it succeeds the store of the
\* other role is as it was, and the store of the user's role is as it was or
\* has one more profile, the one of the authenticated user, who had none.
C26_LoginWritesNoAccount ==
    /\ [](\A s \in Slots : LoginDone(s) =>
            LET r == reqs[s]
            IN  /\ users = r.before.users
                /\ ~r.result.ok => buyers = r.before.buyers /\ sellers = r.before.sellers
                /\ (r.result.ok /\ r.result.user.role = "buyer") =>
                       /\ sellers = r.before.sellers
                       /\ \/ buyers = r.before.buyers
                          \/ MissingProfileAdded(r.before.buyers, buyers, r.result.user)
                /\ (r.result.ok /\ r.result.user.role = "seller") =>
                       /\ buyers = r.before.buyers
                       /\ \/ sellers = r.before.sellers
                          \/ MissingProfileAdded(r.before.sellers, sellers, r.result.user))
    /\ [][\A s \in Slots : reqs[s].op = "login" => users' = users]_vars

\* a login has returned ok after it added the profile its user did not have
C26_Witness ==
    \E s \in Slots :
        /\ LoginDone(s) /\ reqs[s].result.ok /\ reqs[s].status = 200
        /\ users = reqs[s].before.users /\ users # << >>
        /\ MissingProfileAdded(reqs[s].before.buyers, buyers, reqs[s].result.user)

-----------------------------------------------------------------------------
(* Dashboard metrics.  A number is a fraction num/den with den > 0, or one   *)
(* of NaN, Infinity and -Infinity; expectedLift is counted in hundredths.     *)

Finite(num, den) == [kind |-> "finite", num |-> num, den |-> den]
NotANumber == [kind |-> "NaN", num |-> 0, den |-> 1]
Infinity == [kind |-> "Infinity", num |-> 1, den |-> 1]
NegInfinity == [kind |-> "-Infinity", num |-> -1, den |-> 1]

\* a / b of two integers
Quotient(a, b) ==
    IF b = 0 THEN IF a = 0 THEN NotANumber ELSE IF a > 0 THEN Infinity ELSE NegInfinity
    ELSE IF b > 0 THEN Finite(a, b)
    ELSE Finite(-a, -b)

\* v * k of a number and a positive integer
Times(v, k) == IF v.kind = "finite" THEN Finite(v.num * k, v.den) ELSE v

\* c - v of an integer and a number
Minus(c, v) ==
    IF v.kind = "finite" THEN Finite(c * v.den - v.num, v.den)
    ELSE IF v.kind = "Infinity" THEN NegInfinity
    ELSE IF v.kind = "-Infinity" THEN Infinity
    ELSE NotANumber

\* v - c of a number and an integer
Less(v, c) == IF v.kind = "finite" THEN Finite(v.num - c * v.den, v.den) ELSE v

\* Math.round: the nearest integer, halves upwards
MathRound(v) ==
    IF v.kind = "finite" THEN Finite((2 * v.num + v.den) \div (2 * v.den), 1) ELSE v

\* Math.min(limit, v) and Math.max(limit, v) of an integer and a rounded number
MathMin(limit, v) ==
    IF v.kind = "finite" THEN Finite(Min(limit, v.num), 1)
    ELSE IF v.kind = "Infinity" THEN Finite(limit, 1)
    ELSE v

MathMax(limit, v) ==
    IF v.kind = "finite" THEN Finite(Max(limit, v.num), 1)
    ELSE IF v.kind = "-Infinity" THEN Finite(limit, 1)
    ELSE v

clampScore(value) == MathMax(0, MathMin(100, MathRound(value)))

\* v || fallback
OrElse(v, fallback) ==
    IF v.kind = "NaN" \/ (v.kind = "finite" /\ v.num = 0) THEN Finite(fallback, 1) ELSE v

\* inventory.filter((item) => item.status === status).length
CountStatus(seq, status) ==
    LET Has(x) == x.status = status
    IN  Len(Filter(seq, Has))

computeBuyerMetrics(profile) ==
    LET total == Len(profile.inventory)
        expiring == CountStatus(profile.inventory, "use-soon")
        healthy == CountStatus(profile.inventory, "healthy")
        restock == CountStatus(profile.inventory, "restock")
        recentSpend == SumTotals(Take(profile.purchases, 4))
        readyEvents == CountStatus(profile.events, "on-track")
    IN  [wasteRisk |-> clampScore(Finite(100 - expiring * 18, 1)),
         pantryHealth |->
             IF total = 0 THEN Finite(0, 1)
             ELSE clampScore(Less(Times(Quotient(healthy, total), 100), restock * 5)),
         budgetHealth |->
             clampScore(Minus(100, Times(Quotient(recentSpend - profile.budgetPerWeek,
                                                  profile.budgetPerWeek), 40))),
         eventReadiness |->
             IF Len(profile.events) = 0 THEN Finite(50, 1)
             ELSE clampScore(Times(Quotient(readyEvents, Len(profile.events)), 100))]

RECURSIVE SumRisk(_)
SumRisk(items) ==
    IF items = << >> THEN 0 ELSE Head(items).spoilageRisk + SumRisk(Tail(items))

RECURSIVE SumLift(_)
SumLift(signals) ==
    IF signals = << >> THEN 0 ELSE Head(signals).expectedLift + SumLift(Tail(signals))

computeSellerMetrics(profile) ==
    LET NotHealthy(item) == item.status # "healthy"
        NotDraft(promo) == promo.status # "draft"
        risky == Filter(profile.inventory, NotHealthy)
        total == IF Len(profile.inventory) = 0 THEN 1 ELSE Len(profile.inventory)
    IN  [sellThrough |-> clampScore(Times(Minus(1, Quotient(Len(risky), total)), 100)),
         spoilageRisk |->
             clampScore(OrElse(Quotient(SumRisk(risky), Max(1, Len(risky))), 20)),
         promotionMomentum |->
             clampScore(Finite(Len(Filter(profile.promotions, NotDraft)) * 25
                               + profile.goals.growBundles, 1)),
         demandConfidence |->
             clampScore(Quotient(SumLift(profile.demandSignals),
                                 Max(1, Len(profile.demandSignals))))]

\* buildBuyerDashboard / buildSellerDashboard compute the metrics of the profile
\* they have read
ComputeMetrics(s) ==
    LET r == reqs[s]
    IN  /\ r.op = "metrics" /\ r.pc = "call"
        /\ reqs' = [reqs EXCEPT ![s] =
                [r EXCEPT !.pc = "done",
                          !.result = IF r.role = "buyer" THEN computeBuyerMetrics(r.prof)
                                     ELSE computeSellerMetrics(r.prof)]]
        /\ UNCHANGED <<users, buyers, sellers, today, nextUuid, acked, offersFile, aiClient>>

\* sequences of at most MaxListed elements of a set
MaxListed == 2
Listed(S) == UNION {[1..n -> S] : n \in 0..MaxListed}

\* stored buyer profiles: items of every status, no purchase, a purchase of
\* nothing, spend below and above the budget, more purchases than the four that
\* count, a weekly budget of 0, events that are on track or not
BuyerItems == {[name |-> <<"k">>, status |-> status] :
                   status \in {"use-soon", "healthy", "restock", "overflow"}}
Purchase(total) == [total |-> total]
PurchaseLists ==
    {<< >>, <<Purchase(0)>>, <<Purchase(50)>>, <<Purchase(200), Purchase(50)>>,
     <<Purchase(20), Purchase(20), Purchase(20), Purchase(20), Purchase(500)>>}
Budgets == {0, 90}
MetricEvents ==
    {<< >>, <<PlannedEvent(1, "on-track", << >>)>>, <<PlannedEvent(1, "draft", << >>)>>,
     <<PlannedEvent(1, "on-track", << >>), PlannedEvent(2, "needs-shopping", << >>),
       PlannedEvent(3, "draft", << >>)>>}
BuyerProfiles ==
    {[BuyerScaffold(<<"buyer", 0>>, <<"N">>, 0)
         EXCEPT !.inventory = inventory, !.purchases = purchases,
                !.budgetPerWeek = budget, !.events = events] :
        inventory \in Listed(BuyerItems), purchases \in PurchaseLists,
        budget \in Budgets, events \in MetricEvents}

\* stored seller profiles
StockedItems == {[sku |-> <<"s">>, status |-> status, spoilageRisk |-> risk] :
                    status \in {"healthy", "risk", "critical"}, risk \in {0, 70, 500}}
Promotion(status) == [id |-> <<"promo">>, status |-> status]
PromotionLists ==
    {<< >>, <<Promotion("draft")>>, <<Promotion("active"), Promotion("draft")>>,
     <<Promotion("active"), Promotion("scheduled")>>}
SignalLists ==
    {<< >>, <<[expectedLift |-> 12]>>, <<[expectedLift |-> 12], [expectedLift |-> 250]>>,
     <<[expectedLift |-> -5]>>}
SellerProfiles ==
    {[SellerScaffold(<<"seller", 0>>, <<"N">>, 0)
         EXCEPT !.inventory = inventory, !.promotions = promotions,
                !.demandSignals = signals] :
        inventory \in Listed(StockedItems), promotions \in PromotionLists,
        signals \in SignalLists}

\* a dashboard build that has read one of the profiles
InitMetrics ==
    /\ users = << >>
    /\ buyers = << >>
    /\ sellers = << >>
    /\ offersFile = << >>
    /\ aiClient = FALSE
    /\ today = 0
    /\ nextUuid = 1
    /\ acked = {}
    /\ \E role \in Roles :
         \E profile \in IF role = "buyer" THEN BuyerProfiles ELSE SellerProfiles :
           reqs = [s \in Slots |->
                       IF s = 1 THEN [Idle EXCEPT !.op = "metrics", !.pc = "call",
                                                  !.role = role, !.prof = profile]
                       ELSE Idle]

NextMetrics ==
    \/ ComputeMetrics(1)
    \/ Respond(1)

SpecMetrics == InitMetrics /\ [][NextMetrics]_vars

\* an integer between 0 and 100
IsScore(v) == v.kind = "finite" /\ v.den = 1 /\ v.num \in 0..100

MetricsComputed(s) == reqs[s].op = "metrics" /\ reqs[s].pc = "done"

\* C27: the four metrics of every stored buyer profile and the four metrics of
\* every stored seller profile are integers between 0 and 100, also for an empty
\* inventory, no purchases, no events and a weekly budget of 0.
C27_MetricsAreScores ==
    \A s \in Slots :
        MetricsComputed(s) =>
            LET m == reqs[s].result
            IN  IF reqs[s].role = "buyer"
                THEN /\ IsScore(m.wasteRisk) /\ IsScore(m.pantryHealth)
                     /\ IsScore(m.budgetHealth) /\ IsScore(m.eventReadiness)
                ELSE /\ IsScore(m.sellThrough) /\ IsScore(m.spoilageRisk)
                     /\ IsScore(m.promotionMomentum) /\ IsScore(m.demandConfidence)

-----------------------------------------------------------------------------
(* The status of an appended item                                             *)

\* items of no quantity, of half a unit and of more, without expiration date,
\* expired, and expiring around the third and the fortieth day
StatusInputs ==
    [userId : {BuyerId}, name : {<<"k">>}, quantity : {0, 5, 6},
     unit : {<<"u">>}, category : {<<"c">>}, expirationDate : {NoNumber, 0, 3, 4, 42, 43}]

\* items are appended, one request at a time, while days pass
NextStatus ==
    \/ AllIdle /\ \E input \in StatusInputs : appendBuyerInventoryItem(1, input)
    \/ GetProfile(1)
    \/ UpsertRead(1)
    \/ UpsertWrite(1)
    \/ Respond(1)
    \/ Tick

SpecStatus == InitInventory /\ [][NextStatus]_vars

\* the expiration date of `item` is `d` days after the day it was added
ExpiresAfter(item, d) == item.expirationDate - item.addedOn = d

\* the status the precedence gives an item of `quantity` tenths with `daysLeft`
\* days left, or with no expiration date
StatusByPrecedence(item) ==
    LET given == item.expirationDate # NoNumber
    IN  /\ (given /\ item.daysLeft <= 3) => item.status = "use-soon"
        /\ (~(given /\ item.daysLeft <= 3) /\ item.quantity <= 5) => item.status = "restock"
        /\ (~(given /\ item.daysLeft <= 3) /\ item.quantity > 5 /\ given /\ item.daysLeft > 40)
               => item.status = "overflow"
        /\ (~(given /\ item.daysLeft <= 3) /\ item.quantity > 5 /\ ~(given /\ item.daysLeft > 40))
               => item.status = "healthy"
        /\ ~given => item.status \notin {"use-soon", "overflow"}

\* the days left are those from the day of the append to the expiration date,
\* and 0 for a date that has passed; without a date there are none
DaysLeftFromAppend(item) ==
    IF item.expirationDate = NoNumber THEN item.daysLeft = NoNumber
    ELSE /\ item.daysLeft >= 0
         /\ \/ item.daysLeft = 0 /\ item.expirationDate <= item.addedOn
            \/ ExpiresAfter(item, item.daysLeft)

-----------------------------------------------------------------------------
(* The status of an added seller entry                                        *)

\* entries that have been on hand for no day, around the tenth and the
\* fifteenth day and for long, with no spoilageRisk and with a low, a middle and
\* a high one
ShelfItems ==
    [sku : {<<"s">>}, name : {<<"m">>}, stock : {3}, daysOnHand : {0, 9, 10, 14, 15, 30},
     margin : {20}, spoilageRisk : {NoNumber, 0, 50, 90}]

\* entries are added, one request at a time, while days pass
NextShelf ==
    \/ AllIdle /\ \E item \in ShelfItems : addSellerInventoryEntry(1, SellerId, item)
    \/ GetProfile(1)
    \/ UpsertRead(1)
    \/ UpsertWrite(1)
    \/ Respond(1)
    \/ Tick

SpecShelf == InitInventory /\ [][NextShelf]_vars

\* addSellerInventoryEntry has returned the updated profile to request r
EntryReturned(r) == r.op = "addSeller" /\ r.pc = "done" /\ r.status = 201

\* the entry the request added: the last of the inventory it returned
AddedEntry(r) == r.prof.inventory[Len(r.prof.inventory)]

\* critical after more than 14 days on hand, healthy otherwise
StatusByDaysOnHand(entry) ==
    /\ entry.status \in {"critical", "healthy"}
    /\ entry.status = "critical" <=> entry.daysOnHand > 14

\* C29: the entry addSellerInventoryEntry stores is critical exactly when
\* daysOnHand > 14 and healthy otherwise, never risk, whatever spoilageRisk the
\* caller supplied; its spoilageRisk is the supplied one when there is one,
\* otherwise 70 for daysOnHand > 14, 40 for 10..14 and 20 below.
C29_SellerStatusByDaysOnHand ==
    /\ \A s \in Slots :
          EntryReturned(reqs[s]) =>
              LET entry == AddedEntry(reqs[s])
                  item == reqs[s].arg
              IN  /\ entry.daysOnHand = item.daysOnHand
                  /\ StatusByDaysOnHand(entry)
                  /\ item.spoilageRisk # NoNumber => entry.spoilageRisk = item.spoilageRisk
                  /\ item.spoilageRisk = NoNumber =>
                         entry.spoilageRisk = IF item.daysOnHand > 14 THEN 70
                                              ELSE IF item.daysOnHand >= 10 THEN 40
                                              ELSE 20
    /\ \A i \in 1..Len(sellers) :
          \A k \in 1..Len(sellers[i].inventory) : StatusByDaysOnHand(sellers[i].inventory[k])

\* an entry that has been on hand for 14 days was added with a supplied
\* spoilageRisk of 90: it is stored healthy with that spoilageRisk
C29_Witness ==
    \E s \in Slots :
        /\ EntryReturned(reqs[s])
        /\ AddedEntry(reqs[s]).daysOnHand = 14
        /\ AddedEntry(reqs[s]).spoilageRisk = 90
        /\ AddedEntry(reqs[s]).status = "healthy"
        /\ \E i \in 1..Len(sellers) :
              /\ sellers[i].inventory # << >>
              /\ sellers[i].inventory[Len(sellers[i].inventory)] = AddedEntry(reqs[s])

====
